---- MODULE Spec2Model ----
(***************************************************************************)
(* A model of dicomlite's DICOM core: the instance comparator and          *)
(* sortInstances, the study / series / instance grouping of                *)
(* groupDicomFiles and the decoder parseDicomFile                          *)
(* (src/src/utils/dicomParser.ts), and the window / level pixel transform  *)
(* of the viewport (src/src/components/Viewport.tsx).                      *)
(*                                                                         *)
(* Numbers.  Z positions and slice locations are counted in units of       *)
(* 0.0005, so that the comparator's tolerance 0.001 is Tol = 2 units and   *)
(* differences below, at and above the tolerance are all integers.         *)
(* Instance and acquisition numbers are integers.  A file path is modelled *)
(* by its rank in the collation order String.prototype.localeCompare       *)
(* compares by.                                                            *)
(*                                                                         *)
(* null.  A nullable field is Null (the empty tuple) or Some(v) = <<v>>.   *)
(***************************************************************************)
EXTENDS Integers, Sequences, FiniteSets

VARIABLES
    pc,          \* the operation the program has completed last
    instances,   \* sortInstances: the list passed in
    sorted,      \* sortInstances: the list returned
    resorted,    \* sortInstances applied to its own result
    a, b,        \* the comparator's two arguments
    order,       \* the comparator's return value, Some(number)
    parsedFiles, \* groupDicomFiles: the records passed in
    studies,     \* groupDicomFiles: the map returned
    called,      \* the functions called so far
    dataSet,     \* the dataset dicomParser.parseDicom made of the file
    parsed,      \* parseDicomFile: the value returned
    viewerState, \* Viewport: the viewerState of the component
    render,      \* Viewport: what the last renderImage computed
    drags,       \* Viewport: the mouse moves handled so far
    store,       \* useAppStore: studies, selection, scanProgress, lastError
    call,        \* the operation last completed on the store, the uid it was given
    opening,     \* the folders the user is going to open, in order
    cancelledRef, \* useDicomScanner: cancelledRef.current
    scans,       \* useDicomScanner: the invocations of scanFolder
    cancelling,  \* useDicomScanner: the cancelScan calls awaiting the main process
    main         \* main process: currentScanSignal and the scan handlers

coreVars == <<instances, sorted, resorted, a, b, order, parsedFiles, studies, called>>

fileVars == <<dataSet, parsed>>

viewVars == <<viewerState, render, drags>>

appVars == <<store, call, opening, cancelledRef, scans, cancelling>>

vars == <<pc, coreVars, fileVars, viewVars, appVars, main>>

----------------------------------------------------------------------------
(* JavaScript numbers.  The numbers of the decoder and of the viewport are *)
(* the integers, NaN and the two infinities.  The texts of the model hold  *)
(* no decimal point and no exponent, so parseFloat yields an integer or    *)
(* NaN, sums and products of integers are exact, and an infinity arises    *)
(* only from a division by zero.                                           *)

Num(n) == [k |-> "num", v |-> n]

NaN == [k |-> "nan", v |-> 0]

Infinity(sign) == [k |-> "inf", v |-> sign]

isNaN(x) == x.k = "nan"

IsNum(x) == x.k = "num"

(* x + y; no operand is an infinity *)
Plus(x, y) == IF IsNum(x) /\ IsNum(y) THEN Num(x.v + y.v) ELSE NaN

(* Math.max(n, x) for an integer n *)
MathMax(n, x) ==
    IF isNaN(x) THEN NaN
    ELSE IF x.k = "inf" THEN (IF x.v > 0 THEN x ELSE Num(n))
    ELSE Num(IF x.v > n THEN x.v ELSE n)

(* Math.round(p / q) for integers p and q, q # 0: the nearest integer,     *)
(* a half rounded towards plus infinity                                    *)
RoundOfQuotient(p, q) ==
    IF q > 0 THEN (2 * p + q) \div (2 * q)
    ELSE (2 * (-p) + (-q)) \div (2 * (-q))

(* what a Uint8ClampedArray holds after x is assigned to an element *)
ToUint8Clamp(x) ==
    IF isNaN(x) THEN 0
    ELSE IF x.k = "inf" THEN (IF x.v > 0 THEN 255 ELSE 0)
    ELSE IF x.v < 0 THEN 0
    ELSE IF x.v > 255 THEN 255
    ELSE x.v

----------------------------------------------------------------------------
(* JavaScript strings: a string is the sequence of its characters.         *)

Digits == <<"0", "1", "2", "3", "4", "5", "6", "7", "8", "9">>

DigitValue(c) == (CHOOSE i \in DOMAIN Digits : Digits[i] = c) - 1

IsSpace(c) == c = " "

(* the delimiter of the values of a multi-valued element *)
Backslash == "\\"

RECURSIVE TrimStart(_)
TrimStart(str) ==
    IF str # <<>> /\ IsSpace(Head(str)) THEN TrimStart(Tail(str)) ELSE str

RECURSIVE TrimEnd(_)
TrimEnd(str) ==
    IF str # <<>> /\ IsSpace(str[Len(str)])
    THEN TrimEnd(SubSeq(str, 1, Len(str) - 1))
    ELSE str

(* String.prototype.trim *)
trim(str) == TrimEnd(TrimStart(str))

(* the length of the longest prefix of str made of digits *)
RECURSIVE DigitsPrefix(_)
DigitsPrefix(str) ==
    IF str # <<>> /\ (\E i \in DOMAIN Digits : Digits[i] = Head(str)) THEN 1 + DigitsPrefix(Tail(str)) ELSE 0

(* the number the digits str[1..n] write *)
RECURSIVE DecimalValue(_, _)
DecimalValue(str, n) ==
    IF n = 0 THEN 0 ELSE 10 * DecimalValue(str, n - 1) + DigitValue(str[n])

(* parseFloat: leading white space is skipped, then an optional sign and   *)
(* the longest run of digits are read and what follows is ignored; NaN     *)
(* when there is no digit to read                                          *)
parseFloat(str) ==
    LET t      == TrimStart(str)
        signed == t # <<>> /\ Head(t) \in {"-", "+"}
        body   == IF signed THEN Tail(t) ELSE t
        n      == DigitsPrefix(body)
    IN  IF n = 0 THEN NaN
        ELSE IF signed /\ Head(t) = "-" THEN Num(-DecimalValue(body, n))
        ELSE Num(DecimalValue(body, n))

(* String.prototype.split('\\'): the pieces between the backslashes *)
RECURSIVE split(_)
split(str) ==
    IF \A i \in DOMAIN str : str[i] # Backslash THEN <<str>>
    ELSE LET i == CHOOSE k \in DOMAIN str :
                      str[k] = Backslash /\ \A j \in 1..(k - 1) : str[j] # Backslash
         IN  <<SubSeq(str, 1, i - 1)>> \o split(SubSeq(str, i + 1, Len(str)))

(* a string in a condition: true unless empty *)
Truthy(str) == str # <<>>

(* the core, the file decoder and the viewport before anything is asked   *)
(* of them                                                                 *)
IdleCore ==
    /\ instances = <<>> /\ sorted = <<>> /\ resorted = <<>>
    /\ a = <<>> /\ b = <<>> /\ order = <<>>
    /\ parsedFiles = <<>>
    /\ studies = <<>>
    /\ called = {}

IdleFile == dataSet = <<>> /\ parsed = <<>>

(* useState({windowCenter: 40, windowWidth: 400, zoom: 1, panX: 0,         *)
(* panY: 0}), the zoom in hundredths                                       *)
IdleView ==
    /\ viewerState = [windowCenter |-> Num(40), windowWidth |-> Num(400),
                      zoom |-> 100, panX |-> 0, panY |-> 0]
    /\ render = <<>>
    /\ drags = 0

(* const defaultScanProgress *)
defaultScanProgress ==
    [isScanning |-> FALSE, filesFound |-> 0, filesParsed |-> 0,
     currentPath |-> <<>>, errors |-> <<>>]

(* the store as create() makes it: no study, nothing selected (null is the *)
(* empty tuple)                                                            *)
InitialStore ==
    [ studies               |-> <<>>,
      selectedStudyUID      |-> <<>>,
      selectedSeriesUID     |-> <<>>,
      selectedInstanceIndex |-> 0,
      scanProgress          |-> defaultScanProgress,
      lastError             |-> <<>> ]

(* no operation yet *)
NoCall == [op |-> "none", uid |-> <<>>]

IdleApp ==
    /\ store = InitialStore
    /\ call = NoCall
    /\ opening = <<>>
    /\ cancelledRef = FALSE
    /\ scans = <<>>
    /\ cancelling = [calls |-> 0, waiting |-> 0]

(* let currentScanSignal = null, no handler running *)
IdleMain ==
    main = [currentScanSignal |-> <<>>, signals |-> <<>>, handlers |-> <<>>,
            cancelReturned |-> <<>>]

----------------------------------------------------------------------------
(* Bounds of the model *)

MaxLen == 3

MaxFiles == 3

(* the longest sequence of records SpecCore groups *)
MaxCoreFiles == 1

(* the mouse moves the viewport handles *)
MaxDrags == 1

(* the files of the folder of a scan that runs alone *)
MaxScanFiles == 22

(* the invocations of scanFolder, the calls of cancelScan *)
MaxScans == 2

MaxCancels == 1

(* the indices given to setSelectedInstanceIndex *)
MaxIndex == 5

(* the calls of fs:scanDicomFolder in the main process *)
MaxMainScans == 3

(* Math.abs(diff) > 0.001, in units of 0.0005 *)
Tol == 2

----------------------------------------------------------------------------
(* Nullable values *)

Null == <<>>

Some(v) == <<v>>

Val(o) == o[1]

Abs(x) == IF x < 0 THEN -x ELSE x

Sign(x) == IF x < 0 THEN -1 ELSE IF x > 0 THEN 1 ELSE 0

(* interface DicomInstance, the fields sortInstances and groupDicomFiles read *)
Inst(z, s, n, q, p, u) ==
    [ filePath             |-> p,
      sopInstanceUID       |-> u,
      instanceNumber       |-> n,
      imagePositionPatient |-> z,
      sliceLocation        |-> s,
      acquisitionNumber    |-> q ]

(* a position vector <<x, y, z>> with the given third component *)
Pos(z) == Some(<<0, 0, z>>)

----------------------------------------------------------------------------
(* The comparator of sortInstances *)

(* a.imagePositionPatient[2] is a number: the vector is there and has a    *)
(* third component.  With a vector that lacks it, zDiff is NaN and         *)
(* Math.abs(NaN) > 0.001 is false, which falls through as well.            *)
HasZ(i) == i.imagePositionPatient # Null /\ Len(Val(i.imagePositionPatient)) >= 3

ZOf(i) == Val(i.imagePositionPatient)[3]

(* a.filePath.localeCompare(b.filePath) on collation ranks *)
localeCompareMutNoEqual(p, q) == IF p > q THEN 1 ELSE -1

localeCompare(p, q) == Sign(p - q)

compareMutNoTolerance(x, y) ==
    IF HasZ(x) /\ HasZ(y) /\ ZOf(x) # ZOf(y)
    THEN ZOf(x) - ZOf(y)
    ELSE IF x.sliceLocation # Null /\ y.sliceLocation # Null
            /\ Val(x.sliceLocation) # Val(y.sliceLocation)
    THEN Val(x.sliceLocation) - Val(y.sliceLocation)
    ELSE IF x.instanceNumber # Null /\ y.instanceNumber # Null
    THEN Val(x.instanceNumber) - Val(y.instanceNumber)
    ELSE IF x.acquisitionNumber # Null /\ y.acquisitionNumber # Null
    THEN Val(x.acquisitionNumber) - Val(y.acquisitionNumber)
    ELSE localeCompare(x.filePath, y.filePath)

compareMutSkipNumber(x, y) ==
    IF HasZ(x) /\ HasZ(y) /\ Abs(ZOf(x) - ZOf(y)) > Tol
    THEN ZOf(x) - ZOf(y)
    ELSE IF x.sliceLocation # Null /\ y.sliceLocation # Null
            /\ Abs(Val(x.sliceLocation) - Val(y.sliceLocation)) > Tol
    THEN Val(x.sliceLocation) - Val(y.sliceLocation)
    ELSE IF x.acquisitionNumber # Null /\ y.acquisitionNumber # Null
    THEN Val(x.acquisitionNumber) - Val(y.acquisitionNumber)
    ELSE localeCompare(x.filePath, y.filePath)

(* the arrow function (a, b) => ... passed to sort *)
compare(x, y) ==
    IF HasZ(x) /\ HasZ(y) /\ Abs(ZOf(x) - ZOf(y)) > Tol
    THEN ZOf(x) - ZOf(y)
    ELSE IF x.sliceLocation # Null /\ y.sliceLocation # Null
            /\ Abs(Val(x.sliceLocation) - Val(y.sliceLocation)) > Tol
    THEN Val(x.sliceLocation) - Val(y.sliceLocation)
    ELSE IF x.instanceNumber # Null /\ y.instanceNumber # Null
    THEN Val(x.instanceNumber) - Val(y.instanceNumber)
    ELSE IF x.acquisitionNumber # Null /\ y.acquisitionNumber # Null
    THEN Val(x.acquisitionNumber) - Val(y.acquisitionNumber)
    ELSE localeCompare(x.filePath, y.filePath)

----------------------------------------------------------------------------
(* Array.prototype.sort as the runtime (V8, in Electron) computes it for   *)
(* an array of fewer than 64 elements: the whole array is one run of       *)
(* TimSort, made of the leading ascending or strictly descending run       *)
(* (reversed) and a binary insertion of every element after it.  Arrays    *)
(* are 1-based here.                                                       *)

ReverseRange(w, n) ==
    [i \in 1..Len(w) |-> IF i <= n THEN w[n + 1 - i] ELSE w[i]]

(* the length of the run that starts at w[1], the first two elements       *)
(* having been compared already; idx is the next element to look at        *)
RECURSIVE RunLength(_, _, _)
RunLength(w, idx, isDescending) ==
    IF idx > Len(w) THEN Len(w)
    ELSE LET ord == compare(w[idx], w[idx - 1])
         IN  IF isDescending
             THEN IF ord >= 0 THEN idx - 1 ELSE RunLength(w, idx + 1, isDescending)
             ELSE IF ord < 0 THEN idx - 1 ELSE RunLength(w, idx + 1, isDescending)

(* <<the array with its leading run made ascending, the run's length>> *)
CountAndMakeRun(w) ==
    IF Len(w) = 1 THEN <<w, 1>>
    ELSE LET isDescending == compare(w[2], w[1]) < 0
             runLength    == RunLength(w, 3, isDescending)
         IN  <<IF isDescending THEN ReverseRange(w, runLength) ELSE w, runLength>>

(* the insertion point of pivot in w[left..right-1] *)
RECURSIVE FindInsertion(_, _, _, _)
FindInsertion(w, pivot, left, right) ==
    IF left >= right THEN left
    ELSE LET mid == left + ((right - left) \div 2)
         IN  IF compare(pivot, w[mid]) < 0
             THEN FindInsertion(w, pivot, left, mid)
             ELSE FindInsertion(w, pivot, mid + 1, right)

(* w with w[start] moved to position left, the elements between shifted up *)
InsertAt(w, start, left) ==
    [p \in 1..Len(w) |->
        IF p = left THEN w[start]
        ELSE IF p > left /\ p <= start THEN w[p - 1]
        ELSE w[p]]

RECURSIVE BinaryInsertionSort(_, _)
BinaryInsertionSort(w, start) ==
    IF start > Len(w) THEN w
    ELSE BinaryInsertionSort(
             InsertAt(w, start, FindInsertion(w, w[start], 1, start)),
             start + 1)

ArraySort(w) ==
    IF Len(w) < 2 THEN w
    ELSE LET run == CountAndMakeRun(w)
         IN  BinaryInsertionSort(run[1], run[2] + 1)

HasKey(i) ==
    \/ i.imagePositionPatient # Null
    \/ i.sliceLocation # Null
    \/ i.instanceNumber # Null
    \/ i.acquisitionNumber # Null

sortInstancesMutDropUnkeyed(list) == ArraySort(SelectSeq(list, HasKey))

(* export function sortInstances: [...instances].sort(compare) *)
sortInstances(list) == ArraySort(list)

sortInstancesArgumentMutInPlace(list) == ArraySort(list)

(* the array passed to sortInstances, after the call: [...instances] is a  *)
(* copy, and the copy is what sort reorders                                *)
sortInstancesArgument(list) == list

----------------------------------------------------------------------------
(* Inputs *)

Family(zs, ss, ns, qs, ps) ==
    {Inst(z, s, n, q, p, p) : z \in zs, s \in ss, n \in ns, q \in qs, p \in ps}

(* instances ordered by their Z position, some within the tolerance;       *)
(* instances without a position, ordered by their slice location;          *)
(* instances ordered by their instance number; instances ordered by        *)
(* acquisition number or file path only; instances of which some carry a   *)
(* key and some do not                                                     *)
Families ==
    LET PositionFamily ==
            Family({Pos(0), Pos(2), Pos(3), Pos(6)}, {Null, Some(0)}, {Null}, {Null}, {1, 2})
        SliceFamily ==
            Family({Null}, {Some(0), Some(2), Some(3), Some(6)}, {Null, Some(1)}, {Null},
                   {1, 2})
        NumberFamily ==
            Family({Null}, {Null}, {Some(1), Some(2), Some(3)}, {Null, Some(1)}, {1, 2})
        PathFamily ==
            Family({Null}, {Null}, {Null}, {Null, Some(1), Some(2)}, {1, 2, 3})
        MixedFamily ==
            Family({Null, Pos(0), Pos(3)}, {Null}, {Null, Some(1), Some(2)}, {Null},
                   {1, 2, 3})
    IN  {PositionFamily, SliceFamily, NumberFamily, PathFamily, MixedFamily}

(* the comparator's arguments: every combination of present and absent keys *)
CompareDomain ==
    Family({Null, Some(<<0, 0>>), Pos(0), Pos(2), Pos(3)},
           {Null, Some(0), Some(2), Some(3)},
           {Null, Some(1), Some(2)},
           {Null, Some(1), Some(2)},
           {1, 2})

----------------------------------------------------------------------------
(* Specification of sortInstances *)

InitSort ==
    /\ pc = "init"
    /\ \E F \in Families : \E n \in 0..MaxLen : instances \in [1..n -> F]
    /\ sorted = <<>>
    /\ resorted = <<>>
    /\ a = Null /\ b = Null /\ order = Null
    /\ parsedFiles = <<>>
    /\ studies = <<>>
    /\ called = {}
    /\ IdleFile /\ IdleView
    /\ IdleApp /\ IdleMain

(* const s = sortInstances(instances) *)
SortInstances ==
    /\ pc = "init"
    /\ sorted' = sortInstances(instances)
    /\ instances' = sortInstancesArgument(instances)
    /\ pc' = "sorted"
    /\ called' = called \cup {"sortInstances"}
    /\ UNCHANGED <<resorted, a, b, order, parsedFiles, studies, fileVars, viewVars, appVars, main>>

(* sortInstances(s) *)
SortAgain ==
    /\ pc = "sorted"
    /\ resorted' = sortInstances(sorted)
    /\ sorted' = sortInstancesArgument(sorted)
    /\ pc' = "resorted"
    /\ called' = called \cup {"sortInstances"}
    /\ UNCHANGED <<instances, a, b, order, parsedFiles, studies, fileVars, viewVars, appVars, main>>

NextSort == SortInstances \/ SortAgain

SpecSort == InitSort /\ [][NextSort]_vars

----------------------------------------------------------------------------
(* Specification of the comparator *)

InitCompare ==
    /\ pc = "init"
    /\ a \in CompareDomain
    /\ b \in CompareDomain
    /\ order = Null
    /\ instances = <<>> /\ sorted = <<>> /\ resorted = <<>>
    /\ parsedFiles = <<>>
    /\ studies = <<>>
    /\ called = {}
    /\ IdleFile /\ IdleView
    /\ IdleApp /\ IdleMain

Compare ==
    /\ pc = "init"
    /\ order' = Some(compare(a, b))
    /\ pc' = "compared"
    /\ UNCHANGED <<instances, sorted, resorted, a, b, parsedFiles, studies, called, fileVars, viewVars, appVars, main>>

NextCompare == Compare

SpecCompare == InitCompare /\ [][NextCompare]_vars

----------------------------------------------------------------------------
(* groupDicomFiles.  A JavaScript Map is the sequence of its entries       *)
(* [key, value] in insertion order.                                        *)

MapHas(m, k) == \E i \in DOMAIN m : m[i].key = k

MapIndex(m, k) == CHOOSE i \in DOMAIN m : m[i].key = k

MapGet(m, k) == m[MapIndex(m, k)].value

(* Map.prototype.set: an existing key keeps its place *)
MapSet(m, k, v) ==
    IF MapHas(m, k)
    THEN [m EXCEPT ![MapIndex(m, k)] = [key |-> k, value |-> v]]
    ELSE Append(m, [key |-> k, value |-> v])

MapKeys(m) == {m[i].key : i \in DOMAIN m}

(* v ?? d *)
Coalesce(v, d) == IF v = Null THEN d ELSE v

(* the descriptive fields of a study and of a series *)
StudyFields ==
    {"studyDate", "studyTime", "studyDescription", "patientName", "patientId",
     "patientBirthDate", "patientSex", "accessionNumber", "institutionName",
     "referringPhysicianName"}

SeriesFields == {"seriesNumber", "seriesDescription", "modality"}

(* study = { studyInstanceUID, studyDate: file.studyInfo.studyDate ?? null, ... } *)
NewStudy(file) ==
    [ studyInstanceUID       |-> file.studyInstanceUID,
      studyDate              |-> Coalesce(file.studyInfo.studyDate, Null),
      studyTime              |-> Coalesce(file.studyInfo.studyTime, Null),
      studyDescription       |-> Coalesce(file.studyInfo.studyDescription, Null),
      patientName            |-> Coalesce(file.studyInfo.patientName, Null),
      patientId              |-> Coalesce(file.studyInfo.patientId, Null),
      patientBirthDate       |-> Coalesce(file.studyInfo.patientBirthDate, Null),
      patientSex             |-> Coalesce(file.studyInfo.patientSex, Null),
      accessionNumber        |-> Coalesce(file.studyInfo.accessionNumber, Null),
      institutionName        |-> Coalesce(file.studyInfo.institutionName, Null),
      referringPhysicianName |-> Coalesce(file.studyInfo.referringPhysicianName, Null),
      series                 |-> <<>> ]

(* series = { seriesInstanceUID, ..., instances: [], sortedInstances: [] } *)
NewSeries(file) ==
    [ seriesInstanceUID |-> file.seriesInstanceUID,
      seriesNumber      |-> Coalesce(file.seriesInfo.seriesNumber, Null),
      seriesDescription |-> Coalesce(file.seriesInfo.seriesDescription, Null),
      modality          |-> Coalesce(file.seriesInfo.modality, Some("OT")),
      studyInstanceUID  |-> file.studyInstanceUID,
      instances         |-> <<>>,
      sortedInstances   |-> <<>> ]

(* the study of `file` with the descriptive fields of `file` *)
Redescribed(study, file) == [NewStudy(file) EXCEPT !.series = study.series]

AddFileMutNewSeries(map, file) ==
    LET study  == IF MapHas(map, file.studyInstanceUID)
                  THEN MapGet(map, file.studyInstanceUID)
                  ELSE NewStudy(file)
        series == NewSeries(file)
        pushed == [series EXCEPT !.instances = Append(@, file.instance)]
    IN  MapSet(map, file.studyInstanceUID,
               [study EXCEPT !.series = MapSet(@, file.seriesInstanceUID, pushed)])

AddFileMutOverwrite(map, file) ==
    LET study  == IF MapHas(map, file.studyInstanceUID)
                  THEN Redescribed(MapGet(map, file.studyInstanceUID), file)
                  ELSE NewStudy(file)
        series == IF MapHas(study.series, file.seriesInstanceUID)
                  THEN MapGet(study.series, file.seriesInstanceUID)
                  ELSE NewSeries(file)
        pushed == [series EXCEPT !.instances = Append(@, file.instance)]
    IN  MapSet(map, file.studyInstanceUID,
               [study EXCEPT !.series = MapSet(@, file.seriesInstanceUID, pushed)])

AddFileMutDedup(map, file) ==
    LET study  == IF MapHas(map, file.studyInstanceUID)
                  THEN MapGet(map, file.studyInstanceUID)
                  ELSE NewStudy(file)
        series == IF MapHas(study.series, file.seriesInstanceUID)
                  THEN MapGet(study.series, file.seriesInstanceUID)
                  ELSE NewSeries(file)
        seen   == \E k \in DOMAIN series.instances :
                      series.instances[k].sopInstanceUID = file.instance.sopInstanceUID
        pushed == IF seen THEN series
                  ELSE [series EXCEPT !.instances = Append(@, file.instance)]
    IN  MapSet(map, file.studyInstanceUID,
               [study EXCEPT !.series = MapSet(@, file.seriesInstanceUID, pushed)])

(* the body of the loop over parsedFiles: get or create the study, get or  *)
(* create the series, push the instance                                    *)
AddFile(map, file) ==
    LET study  == IF MapHas(map, file.studyInstanceUID)
                  THEN MapGet(map, file.studyInstanceUID)
                  ELSE NewStudy(file)
        series == IF MapHas(study.series, file.seriesInstanceUID)
                  THEN MapGet(study.series, file.seriesInstanceUID)
                  ELSE NewSeries(file)
        pushed == [series EXCEPT !.instances = Append(@, file.instance)]
    IN  MapSet(map, file.studyInstanceUID,
               [study EXCEPT !.series = MapSet(@, file.seriesInstanceUID, pushed)])

(* for (const file of parsedFiles) { ... }, from the i-th file on *)
RECURSIVE AddFiles(_, _, _)
AddFiles(map, files, i) ==
    IF i > Len(files) THEN map
    ELSE AddFiles(AddFile(map, files[i]), files, i + 1)

SortSeries(series) ==
    [series EXCEPT !.sortedInstances = sortInstances(series.instances),
                   !.instances = sortInstancesArgument(series.instances)]

SortAllSeriesMutFirstOnly(map) ==
    [i \in DOMAIN map |->
        [key   |-> map[i].key,
         value |-> [map[i].value EXCEPT !.series =
            [j \in DOMAIN map[i].value.series |->
                [key   |-> map[i].value.series[j].key,
                 value |-> IF j = 1
                           THEN SortSeries(map[i].value.series[j].value)
                           ELSE map[i].value.series[j].value]]]]]

(* for each study, for each series: series.sortedInstances = sortInstances(series.instances) *)
SortAllSeries(map) ==
    [i \in DOMAIN map |->
        [key   |-> map[i].key,
         value |-> [map[i].value EXCEPT !.series =
            [j \in DOMAIN map[i].value.series |->
                [key   |-> map[i].value.series[j].key,
                 value |-> SortSeries(map[i].value.series[j].value)]]]]]

groupDicomFilesMutPlaceholder(files) ==
    IF files = <<>>
    THEN <<[key |-> "unknown", value |-> <<>>]>>
    ELSE SortAllSeries(AddFiles(<<>>, files, 1))

(* export function groupDicomFiles *)
groupDicomFiles(files) == SortAllSeries(AddFiles(<<>>, files, 1))

----------------------------------------------------------------------------
(* The records groupDicomFiles is given: what parseDicomFile returns, the  *)
(* study and series information read from the file's own tags.             *)

StudyUIDs == {"study1", "study2"}

SeriesUIDs == {"series1", "series2"}

StudyInfo(v) ==
    [ studyDate              |-> v,
      studyTime              |-> v,
      studyDescription       |-> Null,
      patientName            |-> v,
      patientId              |-> v,
      patientBirthDate       |-> Null,
      patientSex             |-> v,
      accessionNumber        |-> v,
      institutionName        |-> v,
      referringPhysicianName |-> v ]

SeriesInfo(n, d, m) ==
    [ seriesNumber |-> n, seriesDescription |-> d, modality |-> m ]

(* two instances and a copy of the first in another file *)
GroupInstances ==
    {Inst(Null, Null, Some(2), Null, 1, 1),
     Inst(Null, Null, Some(1), Null, 2, 2),
     Inst(Null, Null, Some(2), Null, 3, 1)}

ParsedFile(st, se, info, inst) ==
    [ studyInstanceUID  |-> st,
      seriesInstanceUID |-> se,
      instance          |-> inst,
      studyInfo         |-> info[1],
      seriesInfo        |-> info[2] ]

(* the records of the model: two series of one study and a series of       *)
(* another study with the UID of one of them; the study and series         *)
(* information of a file without the optional tags and of two files that   *)
(* carry them (parseDicomFile sets the modality to getString(...) ?? 'OT') *)
ParsedFiles ==
    LET Placements == (StudyUIDs \X SeriesUIDs) \ {<<"study2", "series2">>}
        Infos ==
            {<<StudyInfo(Null), SeriesInfo(Null, Null, Some("OT"))>>,
             <<StudyInfo(Some("x")), SeriesInfo(Some(1), Some("Chest CT"), Some("CT"))>>,
             <<StudyInfo(Some("y")), SeriesInfo(Some(2), Null, Some("MR"))>>}
    IN  {ParsedFile(pl[1], pl[2], info, inst) :
            pl \in Placements, info \in Infos, inst \in GroupInstances}

----------------------------------------------------------------------------
(* Specification of groupDicomFiles *)

InitGroup ==
    /\ pc = "init"
    /\ \E n \in 0..MaxFiles : parsedFiles \in [1..n -> ParsedFiles]
    /\ studies = <<>>
    /\ instances = <<>> /\ sorted = <<>> /\ resorted = <<>>
    /\ a = Null /\ b = Null /\ order = Null
    /\ called = {}
    /\ IdleFile /\ IdleView
    /\ IdleApp /\ IdleMain

(* const studies = groupDicomFiles(parsedFiles) *)
GroupDicomFiles ==
    /\ pc \in {"init", "sorted", "resorted"}
    /\ studies' = groupDicomFiles(parsedFiles)
    /\ pc' = "grouped"
    /\ called' = called \cup {"groupDicomFiles"}
    /\ UNCHANGED <<instances, sorted, resorted, a, b, order, parsedFiles, fileVars, viewVars, appVars, main>>

NextGroup == GroupDicomFiles

SpecGroup == InitGroup /\ [][NextGroup]_vars

----------------------------------------------------------------------------
(* Specification of the ordering and grouping core: sortInstances called   *)
(* on a list and groupDicomFiles on a sequence of records, one after the   *)
(* other                                                                   *)

InitCore ==
    /\ pc = "init"
    /\ \E n \in 0..MaxLen : instances \in [1..n -> GroupInstances]
    /\ \E n \in 0..MaxCoreFiles : parsedFiles \in [1..n -> ParsedFiles]
    /\ sorted = <<>> /\ resorted = <<>>
    /\ a = Null /\ b = Null /\ order = Null
    /\ studies = <<>>
    /\ called = {}
    /\ IdleFile /\ IdleView
    /\ IdleApp /\ IdleMain

NextCore == NextSort \/ NextGroup

SpecCore == InitCore /\ [][NextCore]_vars

----------------------------------------------------------------------------
(* Datasets.  An element of a dataset is absent (dataSet.string and        *)
(* dataSet.uint16 return undefined), unreadable (they throw) or present    *)
(* with a value representation vr and a length in bytes; text is what      *)
(* dataSet.string returns for it and word what dataSet.uint16 returns.  A  *)
(* dataset that could not be read or parsed has ok = FALSE.  pixelValue is *)
(* the sample the pixel loop reads for one pixel of the pixel data element *)
(* x7fe00010, Null when the file has no such element.                      *)

Absent == [kind |-> "absent", vr |-> "", length |-> 0, text |-> <<>>, word |-> 0]

Unreadable == [kind |-> "unreadable", vr |-> "UN", length |-> 0, text |-> <<>>, word |-> 0]

(* an element holding a character string *)
Text(str) == [kind |-> "text", vr |-> "LO", length |-> Len(str), text |-> str, word |-> 0]

(* an element holding a sequence of items, of the given length in bytes *)
SequenceOfItems(length) ==
    [kind |-> "text", vr |-> "SQ", length |-> length, text |-> <<>>, word |-> 0]

(* an element holding length bytes, each read as the character "a" *)
Bytes(length) ==
    [kind |-> "text", vr |-> "OB", length |-> length,
     text |-> [i \in 1..length |-> "a"], word |-> 0]

(* an element holding an unsigned 16-bit number; its two bytes read as a   *)
(* string are not modelled                                                 *)
Word(n) == [kind |-> "text", vr |-> "US", length |-> 2, text |-> <<>>, word |-> n]

FailedDataSet == [ok |-> FALSE, elements |-> <<>>, pixelValue |-> Null]

DataSet(elements, pixelValue) ==
    [ok |-> TRUE, elements |-> elements, pixelValue |-> pixelValue]

(* dataSet.string(tag) || fallback, for an element that can be read *)
StringOr(element, fallback) ==
    IF element.kind = "text" /\ Truthy(element.text) THEN element.text ELSE fallback

----------------------------------------------------------------------------
(* Viewport.tsx: the pixel transform of renderImage *)

(* modalityValue <= windowLow, with windowLow = wc - ww / 2; false when    *)
(* an operand is NaN                                                       *)
AtOrBelowWindowLow(modalityValue, wc, ww) ==
    /\ IsNum(modalityValue) /\ IsNum(wc) /\ IsNum(ww)
    /\ 2 * modalityValue.v <= 2 * wc.v - ww.v

(* modalityValue >= windowHigh, with windowHigh = wc + ww / 2 *)
AtOrAboveWindowHigh(modalityValue, wc, ww) ==
    /\ IsNum(modalityValue) /\ IsNum(wc) /\ IsNum(ww)
    /\ 2 * modalityValue.v >= 2 * wc.v + ww.v

WindowBranchMutSwapped(modalityValue, wc, ww) ==
    IF AtOrBelowWindowLow(modalityValue, wc, Num(-ww.v)) THEN "low"
    ELSE IF AtOrAboveWindowHigh(modalityValue, wc, Num(-ww.v)) THEN "high"
    ELSE "scale"

(* the branch of the if / else if / else that sets displayValue *)
WindowBranch(modalityValue, wc, ww) ==
    IF AtOrBelowWindowLow(modalityValue, wc, ww) THEN "low"
    ELSE IF AtOrAboveWindowHigh(modalityValue, wc, ww) THEN "high"
    ELSE "scale"

ScaledMutTruncate(modalityValue, wc, ww) ==
    IF ~(IsNum(modalityValue) /\ IsNum(wc) /\ IsNum(ww)) THEN NaN
    ELSE LET twice == 2 * modalityValue.v - 2 * wc.v + ww.v
         IN  IF ww.v = 0
             THEN (IF twice = 0 THEN NaN ELSE Infinity(Sign(twice)))
             ELSE Num((255 * twice) \div (2 * ww.v))

(* Math.round(((modalityValue - windowLow) / ww) * 255); twice is          *)
(* 2 * (modalityValue - windowLow)                                         *)
Scaled(modalityValue, wc, ww) ==
    IF ~(IsNum(modalityValue) /\ IsNum(wc) /\ IsNum(ww)) THEN NaN
    ELSE LET twice == 2 * modalityValue.v - 2 * wc.v + ww.v
         IN  IF ww.v = 0
             THEN (IF twice = 0 THEN NaN ELSE Infinity(Sign(twice)))
             ELSE Num(RoundOfQuotient(255 * twice, 2 * ww.v))

DisplayValueMutNoClamp(modalityValue, wc, ww) == Scaled(modalityValue, wc, ww)

DisplayValue(modalityValue, wc, ww) ==
    LET branch == WindowBranch(modalityValue, wc, ww)
    IN  IF branch = "low" THEN Num(0)
        ELSE IF branch = "high" THEN Num(255)
        ELSE Scaled(modalityValue, wc, ww)

(* what renderImage leaves behind: an error message, or the locals of the  *)
(* run that drew the image                                                 *)
RenderError == [status |-> "error"]

(* the body of renderImage from the reading of the rescale elements on,    *)
(* for a dataset whose elements can be read and that has pixel data        *)
Drawn(rescaleSlope, rescaleIntercept, wc, ww, pixelValue) ==
    LET scaled        == IF IsNum(rescaleSlope) THEN Num(pixelValue * rescaleSlope.v) ELSE NaN
        modalityValue == Plus(scaled, rescaleIntercept)
        displayValue  == DisplayValue(modalityValue, wc, ww)
    IN  [ status           |-> "drawn",
          rescaleSlope     |-> rescaleSlope,
          rescaleIntercept |-> rescaleIntercept,
          wc               |-> wc,
          ww               |-> ww,
          pixelValue       |-> pixelValue,
          modalityValue    |-> modalityValue,
          branch           |-> WindowBranch(modalityValue, wc, ww),
          displayValue     |-> displayValue,
          imageData        |-> ToUint8Clamp(displayValue) ]

ViewTags == {"x00281053", "x00281052", "x00281050", "x00281051"}

(* the window renderImage uses: the first values of the file's window      *)
(* elements when the file has both, the viewerState otherwise              *)
WindowUsed(elements, state) ==
    IF /\ elements["x00281050"].kind = "text" /\ Truthy(elements["x00281050"].text)
       /\ elements["x00281051"].kind = "text" /\ Truthy(elements["x00281051"].text)
    THEN [state EXCEPT
            !.windowCenter = parseFloat(split(elements["x00281050"].text)[1]),
            !.windowWidth  = parseFloat(split(elements["x00281051"].text)[1])]
    ELSE state

(* const renderImage = useCallback(async () => { ... }), from the parsing  *)
(* of the file on.  An exception (the file cannot be read or parsed, an    *)
(* element cannot be read, there is no pixel data) ends in setError; the   *)
(* viewerState is set before the pixel data element is looked for.         *)
RenderImage ==
    /\ pc \in {"init", "rendered", "dragged"}
    /\ pc' = "rendered"
    /\ IF ~dataSet.ok \/ \E tag \in ViewTags : dataSet.elements[tag].kind = "unreadable"
       THEN /\ render' = RenderError
            /\ UNCHANGED viewerState
       ELSE LET elements == dataSet.elements
                slope     == parseFloat(StringOr(elements["x00281053"], <<"1">>))
                intercept == parseFloat(StringOr(elements["x00281052"], <<"0">>))
                window    == WindowUsed(elements, viewerState)
            IN  /\ viewerState' = window
                /\ render' = IF dataSet.pixelValue = Null THEN RenderError
                              ELSE Drawn(slope, intercept, window.windowCenter,
                                         window.windowWidth, Val(dataSet.pixelValue))
    /\ UNCHANGED <<coreVars, fileVars, drags, appVars, main>>

Min(x, y) == IF x < y THEN x ELSE y

Max(x, y) == IF x > y THEN x ELSE y

(* the setViewerState of handleMouseMove for each active tool *)
Dragged(state, activeTool, deltaX, deltaY) ==
    IF activeTool = "windowLevel"
    THEN [state EXCEPT
            !.windowCenter = Plus(@, Num(deltaY)),
            !.windowWidth  = MathMax(1, Plus(@, Num(deltaX * 2)))]
    ELSE IF activeTool = "pan"
    THEN [state EXCEPT !.panX = @ + deltaX, !.panY = @ + deltaY]
    ELSE IF activeTool = "zoom"
    THEN [state EXCEPT !.zoom = Max(10, Min(1000, @ - deltaY))]
    ELSE state

(* the mouse moves of the model: the tool in use and the distance moved *)
MouseMoves ==
    {<<"windowLevel", -250, 0>>, <<"windowLevel", 10, -40>>,
     <<"pan", 5, 5>>, <<"zoom", 0, -10>>}

(* const handleMouseMove = useCallback((e) => { ... }) while dragging *)
HandleMouseMove ==
    /\ pc \in {"init", "rendered", "dragged"}
    /\ drags < MaxDrags
    /\ \E move \in MouseMoves :
          viewerState' = Dragged(viewerState, move[1], move[2], move[3])
    /\ drags' = drags + 1
    /\ pc' = "dragged"
    /\ UNCHANGED <<coreVars, fileVars, render, appVars, main>>

(* the files of the model: the texts of the rescale and window elements,   *)
(* the samples of the pixel data                                           *)
ViewDataSets ==
    LET SlopeElements ==
            {Absent, Text(<<>>), Text(<<"0">>), Text(<<"2">>), Text(<<"x">>)}
        InterceptElements ==
            {Absent, Text(<<"-", "1", "0", "0", "0">>), Unreadable}
        WindowCenterElements ==
            {Absent, Text(<<"4", "0">>), Text(<<"0", Backslash, "8", "0">>)}
        WindowWidthElements ==
            {Absent, Text(<<"4", "0", "0", Backslash, "2", "0", "0", "0">>), Text(<<"1">>),
             Text(<<"0">>), Text(<<"-", "4", "0", "0">>), Text(<<"x">>)}
        PixelValues == {Null, Some(0), Some(40), Some(520), Some(600)}
    IN  {FailedDataSet} \cup
        {DataSet([tag \in ViewTags |->
                     IF tag = "x00281053" THEN slope
                     ELSE IF tag = "x00281052" THEN intercept
                     ELSE IF tag = "x00281050" THEN center
                     ELSE width],
                 pixelValue) :
            slope \in SlopeElements, intercept \in InterceptElements,
            center \in WindowCenterElements, width \in WindowWidthElements,
            pixelValue \in PixelValues}

InitView ==
    /\ pc = "init"
    /\ dataSet \in ViewDataSets
    /\ parsed = <<>>
    /\ IdleView
    /\ IdleCore
    /\ IdleApp /\ IdleMain

NextView == RenderImage \/ HandleMouseMove

SpecView == InitView /\ [][NextView]_vars

----------------------------------------------------------------------------
(* dicomParser.ts: parseDicomFile.  Of the fields that one getter reads in *)
(* the same way the model keeps these: studyDate for the strings of the    *)
(* study and the series, seriesNumber and instanceNumber for the getNumber *)
(* fields, rows for the getInt fields.  The formatted tag and the          *)
(* dictionary name of a metadata entry are left out.                       *)

(* function getString *)
getString(ds, tag) ==
    IF ds.elements[tag].kind = "text" THEN Some(trim(ds.elements[tag].text)) ELSE Null

(* function getNumber *)
getNumber(ds, tag) ==
    IF ds.elements[tag].kind # "text" THEN Null
    ELSE LET num == parseFloat(ds.elements[tag].text)
         IN  IF isNaN(num) THEN Null ELSE Some(num)

(* function getInt *)
getInt(ds, tag) ==
    IF ds.elements[tag].kind = "text" THEN Some(Num(ds.elements[tag].word)) ELSE Null

(* strValue.split('\\').map((s) => parseFloat(s.trim())) *)
ParseParts(str) ==
    LET pieces == split(str)
    IN  [i \in DOMAIN pieces |-> parseFloat(trim(pieces[i]))]

(* function getNumberArray *)
getNumberArray(ds, tag) ==
    IF ds.elements[tag].kind # "text" THEN Null
    ELSE LET parts == ParseParts(ds.elements[tag].text)
         IN  IF \E i \in DOMAIN parts : isNaN(parts[i]) THEN Null ELSE Some(parts)

(* a window value of the instance: a number when the element has one       *)
(* value, an array otherwise, null when the string is absent or empty      *)
WindowValue(ds, tag) ==
    LET str == getString(ds, tag)
    IN  IF str = Null \/ ~Truthy(Val(str)) THEN Null
        ELSE LET parts == ParseParts(Val(str))
             IN  Some([array |-> Len(parts) # 1, values |-> parts])

(* function formatPatientName: name.replace(/\^/g, ' ').trim() *)
formatPatientName(name) ==
    IF name = Null \/ ~Truthy(Val(name)) THEN Null
    ELSE Some(trim([i \in DOMAIN Val(name) |->
                      IF Val(name)[i] = "^" THEN " " ELSE Val(name)[i]]))

(* x ?? fallback *)
OrElse(x, fallback) == IF x = Null THEN fallback ELSE Val(x)

(* the elements of a dataset in the order of for (const tag in elements) *)
TagOrder ==
    <<"x00080018", "x00080020", "x00080060", "x00081140", "x00100010",
      "x0020000d", "x0020000e", "x00200011", "x00200013", "x00200032",
      "x00280010", "x00281050", "x00281051", "x00281052", "x00281053",
      "x00420011", "x7fe00010">>

ParseTags == {TagOrder[i] : i \in 1..(Len(TagOrder) - 1)}

(* element.length > 256 *)
MaxInline == 256

MetadataValueMutLengthFirst(ds, tag) ==
    LET element == ds.elements[tag]
    IN  IF element.length > MaxInline
        THEN [type |-> "binary", strings |-> <<>>, bytes |-> element.length]
        ELSE IF element.vr = "SQ" THEN [type |-> "sequence", strings |-> <<>>, bytes |-> 0]
        ELSE IF element.kind = "unreadable"
        THEN [type |-> "null", strings |-> <<>>, bytes |-> 0]
        ELSE IF \E i \in DOMAIN element.text : element.text[i] = Backslash
        THEN [type |-> "list", strings |-> split(element.text), bytes |-> 0]
        ELSE [type |-> "string", strings |-> <<element.text>>, bytes |-> 0]

(* the value of a metadata entry: '[Sequence]', '[Binary data: n bytes]',  *)
(* null, a list of strings or a string                                     *)
MetadataValue(ds, tag) ==
    LET element == ds.elements[tag]
    IN  IF element.vr = "SQ" THEN [type |-> "sequence", strings |-> <<>>, bytes |-> 0]
        ELSE IF element.length > MaxInline
        THEN [type |-> "binary", strings |-> <<>>, bytes |-> element.length]
        ELSE IF element.kind = "unreadable"
        THEN [type |-> "null", strings |-> <<>>, bytes |-> 0]
        ELSE IF \E i \in DOMAIN element.text : element.text[i] = Backslash
        THEN [type |-> "list", strings |-> split(element.text), bytes |-> 0]
        ELSE [type |-> "string", strings |-> <<element.text>>, bytes |-> 0]

(* the loop over the elements, from the i-th tag on *)
RECURSIVE Metadata(_, _)
Metadata(ds, i) ==
    IF i > Len(TagOrder) THEN <<>>
    ELSE IF TagOrder[i] = "x7fe00010" \/ ds.elements[TagOrder[i]].kind = "absent"
    THEN Metadata(ds, i + 1)
    ELSE <<[key   |-> TagOrder[i],
            value |-> [vr |-> ds.elements[TagOrder[i]].vr,
                       value |-> MetadataValue(ds, TagOrder[i])]]>>
         \o Metadata(ds, i + 1)

RequiredTags == {"x0020000d", "x0020000e", "x00080018"}

MissesRequiredUIDMutStudyOnly(ds) ==
    getString(ds, "x0020000d") = Null \/ ~Truthy(Val(getString(ds, "x0020000d")))

(* if (!studyInstanceUID || !seriesInstanceUID || !sopInstanceUID) *)
MissesRequiredUID(ds) ==
    \E tag \in RequiredTags :
        getString(ds, tag) = Null \/ ~Truthy(Val(getString(ds, tag)))

(* export function parseDicomFile, ds being what dicomParser.parseDicom    *)
(* made of the buffer                                                      *)
parseDicomFile(ds, filePath) ==
    IF ~ds.ok THEN Null
    ELSE LET studyInstanceUID  == getString(ds, "x0020000d")
             seriesInstanceUID == getString(ds, "x0020000e")
             sopInstanceUID    == getString(ds, "x00080018")
         IN  IF MissesRequiredUID(ds) THEN Null
             ELSE Some(
               [ filePath          |-> filePath,
                 studyInstanceUID  |-> Val(studyInstanceUID),
                 seriesInstanceUID |-> Val(seriesInstanceUID),
                 sopInstanceUID    |-> Val(sopInstanceUID),
                 instance |->
                   [ filePath             |-> filePath,
                     sopInstanceUID       |-> Val(sopInstanceUID),
                     instanceNumber       |-> getNumber(ds, "x00200013"),
                     imagePositionPatient |-> getNumberArray(ds, "x00200032"),
                     rows                 |-> getInt(ds, "x00280010"),
                     rescaleSlope         |-> OrElse(getNumber(ds, "x00281053"), Num(1)),
                     rescaleIntercept     |-> OrElse(getNumber(ds, "x00281052"), Num(0)),
                     windowCenter         |-> WindowValue(ds, "x00281050"),
                     windowWidth          |-> WindowValue(ds, "x00281051") ],
                 studyInfo |->
                   [ studyInstanceUID |-> Val(studyInstanceUID),
                     studyDate        |-> getString(ds, "x00080020"),
                     patientName      |-> formatPatientName(getString(ds, "x00100010")) ],
                 seriesInfo |->
                   [ seriesInstanceUID |-> Val(seriesInstanceUID),
                     seriesNumber      |-> getNumber(ds, "x00200011"),
                     modality          |-> OrElse(getString(ds, "x00080060"), <<"O", "T">>),
                     studyInstanceUID  |-> Val(studyInstanceUID) ],
                 metadata |-> Metadata(ds, 1) ])

(* the elements of the files of the model.  A required UID is absent,      *)
(* unreadable, empty, blank or a UID; the optional elements are all        *)
(* well-formed, or all but one, or all absent, unreadable or malformed.    *)
UidElements ==
    {Absent, Unreadable, Text(<<>>), Text(<<" ">>), Text(<<"1", ".", "2">>)}

OptionalTags == ParseTags \ RequiredTags

WellFormed ==
    [tag \in OptionalTags |->
        IF tag = "x00080020" THEN Text(<<"2", "0", "2", "3">>)
        ELSE IF tag = "x00080060" THEN Text(<<"C", "T">>)
        ELSE IF tag = "x00100010" THEN Text(<<"D", "o", "e", "^", "J">>)
        ELSE IF tag = "x00200011" THEN Text(<<"1">>)
        ELSE IF tag = "x00200013" THEN Text(<<"3">>)
        ELSE IF tag = "x00200032" THEN Text(<<"0", Backslash, "0", Backslash, "5">>)
        ELSE IF tag = "x00280010" THEN Word(512)
        ELSE IF tag = "x00281050" THEN Text(<<"4", "0">>)
        ELSE IF tag = "x00281051" THEN Text(<<"4", "0", "0">>)
        ELSE IF tag = "x00281052" THEN Text(<<"-", "1", "0", "0", "0">>)
        ELSE IF tag = "x00081140" THEN SequenceOfItems(20)
        ELSE IF tag = "x00420011" THEN Bytes(MaxInline)
        ELSE Text(<<"2">>)]

Malformed ==
    [tag \in OptionalTags |->
        IF tag \in {"x00080020", "x00080060", "x00100010"} THEN Text(<<>>)
        ELSE IF tag = "x00200032" THEN Text(<<"0", Backslash, "x", Backslash, "5">>)
        ELSE IF tag = "x00280010" THEN Word(0)
        ELSE IF tag = "x00281050" THEN Text(<<"4", "0", Backslash, "x">>)
        ELSE IF tag = "x00281053" THEN Text(<<"0">>)
        ELSE IF tag = "x00081140" THEN SequenceOfItems(MaxInline + 44)
        ELSE IF tag = "x00420011" THEN Bytes(MaxInline + 1)
        ELSE Text(<<"x">>)]

ParseDataSets ==
    LET OptionalElements ==
            {WellFormed, Malformed,
             [tag \in OptionalTags |-> Absent], [tag \in OptionalTags |-> Unreadable]}
            \cup {[WellFormed EXCEPT ![tag] = element] :
                     tag \in OptionalTags, element \in {Absent, Unreadable}}
            \cup {[WellFormed EXCEPT ![tag] = Malformed[tag]] : tag \in OptionalTags}
    IN  {FailedDataSet} \cup
        {DataSet([tag \in ParseTags |->
                     IF tag = "x0020000d" THEN study
                     ELSE IF tag = "x0020000e" THEN series
                     ELSE IF tag = "x00080018" THEN sop
                     ELSE optional[tag]],
                 pixelValue) :
            study \in UidElements, series \in UidElements, sop \in UidElements,
            optional \in OptionalElements, pixelValue \in {Null, Some(0)}}

InitParse ==
    /\ pc = "init"
    /\ dataSet \in ParseDataSets
    /\ parsed = <<>>
    /\ IdleView
    /\ IdleCore
    /\ IdleApp /\ IdleMain

(* const parsed = parseDicomFile(arrayBuffer, filePath), the path being a  *)
(* rank in the collation order                                             *)
ParseDicomFile ==
    /\ pc = "init"
    /\ \E filePath \in {1, 2} : parsed' = parseDicomFile(dataSet, filePath)
    /\ pc' = "parsed"
    /\ UNCHANGED <<coreVars, dataSet, viewVars, appVars, main>>

NextParse == ParseDicomFile

SpecParse == InitParse /\ [][NextParse]_vars

----------------------------------------------------------------------------
(* useAppStore.ts: the store of the application.  A state of the store is  *)
(* a record; an operation of the store is the record after set(...).  The  *)
(* theme, the viewer settings and the panels are left out.  An index is    *)
(* counted from 0 as in the source, the instances of a series from 1.      *)

(* setStudies: (studies) => set({ studies }) *)
setStudies(state, newStudies) == [state EXCEPT !.studies = newStudies]

clearStudiesMutKeepSelection(state) == [state EXCEPT !.studies = <<>>]

(* clearStudies: () => set({ studies: new Map(), selectedStudyUID: null, ... }) *)
clearStudies(state) ==
    [state EXCEPT !.studies = <<>>,
                  !.selectedStudyUID = Null,
                  !.selectedSeriesUID = Null,
                  !.selectedInstanceIndex = 0]

(* setSelectedStudy: (uid) => set({ selectedStudyUID: uid }) *)
setSelectedStudy(state, uid) == [state EXCEPT !.selectedStudyUID = uid]

setSelectedSeriesMutKeepIndex(state, uid) == [state EXCEPT !.selectedSeriesUID = uid]

(* setSelectedSeries: (uid) => set({ selectedSeriesUID: uid, selectedInstanceIndex: 0 }) *)
setSelectedSeries(state, uid) ==
    [state EXCEPT !.selectedSeriesUID = uid, !.selectedInstanceIndex = 0]

(* setSelectedInstanceIndex: (index) => set({ selectedInstanceIndex: index }) *)
setSelectedInstanceIndex(state, index) == [state EXCEPT !.selectedInstanceIndex = index]

(* getSelectedStudy: selectedStudyUID ? studies.get(selectedStudyUID) ?? null : null *)
(* (a UID of the model is never the empty string)                          *)
getSelectedStudy(state) ==
    IF state.selectedStudyUID # Null /\ MapHas(state.studies, Val(state.selectedStudyUID))
    THEN Some(MapGet(state.studies, Val(state.selectedStudyUID)))
    ELSE Null

(* getSelectedSeries *)
getSelectedSeries(state) ==
    LET study == getSelectedStudy(state)
    IN  IF /\ study # Null
           /\ state.selectedSeriesUID # Null
           /\ MapHas(Val(study).series, Val(state.selectedSeriesUID))
        THEN Some(MapGet(Val(study).series, Val(state.selectedSeriesUID)))
        ELSE Null

(* series.sortedInstances.length > 0 ? series.sortedInstances : series.instances *)
InstancesOf(series) ==
    IF Len(series.sortedInstances) > 0 THEN series.sortedInstances ELSE series.instances

(* getSelectedInstance: instances[selectedInstanceIndex] ?? null *)
getSelectedInstance(state) ==
    LET series == getSelectedSeries(state)
    IN  IF series = Null THEN Null
        ELSE IF state.selectedInstanceIndex + 1 \in DOMAIN InstancesOf(Val(series))
        THEN Some(InstancesOf(Val(series))[state.selectedInstanceIndex + 1])
        ELSE Null

(* setScanProgress: scanProgress: { ...state.scanProgress, ...progress } *)
setScanProgress(state, progress) ==
    [state EXCEPT !.scanProgress =
        [field \in DOMAIN state.scanProgress |->
            IF field \in DOMAIN progress THEN progress[field]
            ELSE state.scanProgress[field]]]

(* resetScanProgress: () => set({ scanProgress: defaultScanProgress }) *)
resetScanProgress(state) == [state EXCEPT !.scanProgress = defaultScanProgress]

(* setLastError: (error) => set({ lastError: error }) *)
setLastError(state, error) == [state EXCEPT !.lastError = error]

----------------------------------------------------------------------------
(* useDicomScanner.ts: scanFolder and cancelScan.  An invocation of        *)
(* scanFolder is a record of its locals and of the await it is suspended   *)
(* at: "scanning" (window.dicom.scanDicomFolder), "reading" (Promise.all   *)
(* of a batch), "yielded" (setTimeout 0), or how it returned: "published", *)
(* "cancelled", "empty", "failed".  The code between two awaits runs       *)
(* without interruption, so it is one step.  cancelRequested records that  *)
(* cancelScan was called while the invocation was running.                 *)

(* const BATCH_SIZE = 20 *)
BATCH_SIZE == 20

(* errors.slice(0, 10) *)
ErrorLimit == 10

(* what becomes of one file of a batch: its read fails, its read throws,   *)
(* parseDicomFile returns null, or parseDicomFile returns a record         *)
ScanFile(path, read, record) == [filePath |-> path, read |-> read, parsed |-> record]

BatchResultMutUncaught(file) ==
    IF file.read = "throws" THEN [parsed |-> Null, error |-> Null]
    ELSE IF file.read = "failed" THEN [parsed |-> Null, error |-> Some(file.filePath)]
    ELSE IF file.parsed = Null THEN [parsed |-> Null, error |-> Some(file.filePath)]
    ELSE [parsed |-> file.parsed, error |-> Null]

(* batch.map(async (filePath) => { ... }): { parsed } or { error: filePath } *)
BatchResult(file) ==
    IF file.read = "throws" THEN [parsed |-> Null, error |-> Some(file.filePath)]
    ELSE IF file.read = "failed" THEN [parsed |-> Null, error |-> Some(file.filePath)]
    ELSE IF file.parsed = Null THEN [parsed |-> Null, error |-> Some(file.filePath)]
    ELSE [parsed |-> file.parsed, error |-> Null]

(* list.slice(from, to) *)
Slice(list, from, to) == SubSeq(list, from + 1, Min(to, Len(list)))

(* for (const result of batchResults): the records pushed to parsedFiles,  *)
(* those with 'parsed' in result && result.parsed                          *)
ParsedOf(batchResults) ==
    LET kept == SelectSeq(batchResults, LAMBDA result : result.parsed # Null)
    IN  [j \in DOMAIN kept |-> Val(kept[j].parsed)]

PublishedMutLastStudy(state, records) ==
    LET grouped  == groupDicomFiles(records)
        stored   == setStudies(state, grouped)
        selected ==
            IF grouped = <<>> THEN stored
            ELSE LET lastStudy == grouped[Len(grouped)].value
                     inStudy   == setSelectedStudy(stored, Some(lastStudy.studyInstanceUID))
                 IN  IF lastStudy.series = <<>> THEN inStudy
                     ELSE setSelectedSeries(inStudy,
                              Some(lastStudy.series[1].value.seriesInstanceUID))
    IN  setScanProgress(selected, [isScanning |-> FALSE])

(* setStudies(studies) and the selection of the first study and of its     *)
(* first series, setScanProgress({ isScanning: false })                    *)
Published(state, records) ==
    LET grouped  == groupDicomFiles(records)
        stored   == setStudies(state, grouped)
        selected ==
            IF grouped = <<>> THEN stored
            ELSE LET firstStudy == grouped[1].value
                     inStudy    == setSelectedStudy(stored, Some(firstStudy.studyInstanceUID))
                 IN  IF firstStudy.series = <<>> THEN inStudy
                     ELSE setSelectedSeries(inStudy,
                              Some(firstStudy.series[1].value.seriesInstanceUID))
    IN  setScanProgress(selected, [isScanning |-> FALSE])

(* if (cancelledRef.current) { setScanProgress({ isScanning: false }); return; } *)
(* at the head of the loop, else the batch from i on is read               *)
LoopHead(scan, state, cancelled) ==
    IF cancelled
    THEN [scan  |-> [scan EXCEPT !.pc = "cancelled"],
          store |-> setScanProgress(state, [isScanning |-> FALSE]),
          op    |-> "cancelled"]
    ELSE [scan  |-> [scan EXCEPT !.pc = "reading"],
          store |-> state,
          op    |-> "batchStarted"]

(* scanFolder(folderPath) up to its first await; the path of the model is  *)
(* the number of the invocation                                            *)
ScanFolder ==
    /\ opening # <<>>
    /\ cancelledRef' = FALSE
    /\ store' = setScanProgress(resetScanProgress(store),
                    [isScanning |-> TRUE, currentPath |-> <<Len(scans) + 1>>])
    /\ scans' = Append(scans,
                    [ pc              |-> "scanning",
                      folder          |-> Head(opening),
                      files           |-> <<>>,
                      i               |-> 0,
                      parsedFiles     |-> <<>>,
                      errors          |-> <<>>,
                      cancelRequested |-> FALSE ])
    /\ opening' = Tail(opening)
    /\ call' = [op |-> "scanFolder", uid |-> Null]
    /\ UNCHANGED <<pc, coreVars, fileVars, viewVars, cancelling, main>>

(* the result of window.dicom.scanDicomFolder arrives: a failure ends in   *)
(* the catch block, an empty list in the message, a list in the first      *)
(* round of the loop                                                       *)
ScanResolved(k) ==
    /\ scans[k].pc = "scanning"
    /\ \E success \in BOOLEAN :
          LET files == scans[k].folder
              found == setScanProgress(store, [filesFound |-> Len(files)])
              scan  == [scans[k] EXCEPT !.files = files]
              head  == LoopHead(scan, found, cancelledRef)
          IN  IF ~success
              THEN /\ store' = setScanProgress(
                                  setLastError(store, Some("Failed to scan folder")),
                                  [isScanning |-> FALSE])
                   /\ scans' = [scans EXCEPT ![k].pc = "failed"]
                   /\ call' = [op |-> "failed", uid |-> Null]
              ELSE IF Len(files) = 0
              THEN /\ store' = setScanProgress(
                                  setLastError(found, Some("No DICOM files found")),
                                  [isScanning |-> FALSE])
                   /\ scans' = [scans EXCEPT ![k] = [scan EXCEPT !.pc = "empty"]]
                   /\ call' = [op |-> "empty", uid |-> Null]
              ELSE /\ store' = head.store
                   /\ scans' = [scans EXCEPT ![k] = head.scan]
                   /\ call' = [op |-> head.op, uid |-> Null]
    /\ UNCHANGED <<pc, coreVars, fileVars, viewVars, opening, cancelledRef, cancelling, main>>

(* Promise.all of the batch resolves: the results are collected and the    *)
(* progress is updated                                                     *)
BatchResolved(k) ==
    /\ scans[k].pc = "reading"
    /\ LET batch        == Slice(scans[k].files, scans[k].i, scans[k].i + BATCH_SIZE)
           batchResults == [j \in DOMAIN batch |-> BatchResult(batch[j])]
           records      == scans[k].parsedFiles \o ParsedOf(batchResults)
           failed       == SelectSeq(batchResults,
                               LAMBDA result : result.parsed = Null /\ result.error # Null)
           errors       == scans[k].errors \o [j \in DOMAIN failed |-> Val(failed[j].error)]
       IN  /\ scans' = [scans EXCEPT ![k].parsedFiles = records,
                                      ![k].errors = errors,
                                      ![k].pc = "yielded"]
           /\ store' = setScanProgress(store,
                           [filesParsed |-> Len(records),
                            errors      |-> Slice(errors, 0, ErrorLimit)])
    /\ call' = [op |-> "batchResolved", uid |-> Null]
    /\ UNCHANGED <<pc, coreVars, fileVars, viewVars, opening, cancelledRef, cancelling, main>>

(* the timer of the yield fires: i += BATCH_SIZE and the next round of the *)
(* loop, or the statements after it                                        *)
TimerFired(k) ==
    /\ scans[k].pc = "yielded"
    /\ LET scan == [scans[k] EXCEPT !.i = @ + BATCH_SIZE]
           next == IF scan.i < Len(scan.files)
                   THEN LoopHead(scan, store, cancelledRef)
                   ELSE IF cancelledRef
                   THEN [scan  |-> [scan EXCEPT !.pc = "cancelled"],
                         store |-> setScanProgress(store, [isScanning |-> FALSE]),
                         op    |-> "cancelled"]
                   ELSE [scan  |-> [scan EXCEPT !.pc = "published"],
                         store |-> Published(store, scan.parsedFiles),
                         op    |-> "published"]
       IN  /\ scans' = [scans EXCEPT ![k] = next.scan]
           /\ store' = next.store
           /\ call' = [op |-> next.op, uid |-> Null]
    /\ UNCHANGED <<pc, coreVars, fileVars, viewVars, opening, cancelledRef, cancelling, main>>

(* cancelScan() up to its await *)
CancelScan ==
    /\ cancelling.calls < MaxCancels
    /\ cancelledRef' = TRUE
    /\ cancelling' = [calls |-> cancelling.calls + 1, waiting |-> cancelling.waiting + 1]
    /\ scans' = [k \in DOMAIN scans |->
                    IF scans[k].pc \in {"scanning", "reading", "yielded"}
                    THEN [scans[k] EXCEPT !.cancelRequested = TRUE]
                    ELSE scans[k]]
    /\ call' = [op |-> "cancelScan", uid |-> Null]
    /\ UNCHANGED <<pc, coreVars, fileVars, viewVars, store, opening, main>>

(* window.dicom.cancelScan() has answered: setScanProgress({ isScanning: false }) *)
CancelResolved ==
    /\ cancelling.waiting > 0
    /\ cancelling' = [cancelling EXCEPT !.waiting = @ - 1]
    /\ store' = setScanProgress(store, [isScanning |-> FALSE])
    /\ call' = [op |-> "cancelResolved", uid |-> Null]
    /\ UNCHANGED <<pc, coreVars, fileVars, viewVars, opening, cancelledRef, scans, main>>

----------------------------------------------------------------------------
(* The folders of the model.  The path of a file is its number in the      *)
(* folder; every fourth file belongs to a second study, the third of four  *)
(* to a second series, and the instance numbers run against the paths.     *)

ScanRecord(path) ==
    ParsedFile(IF path % 4 = 0 THEN "study2" ELSE "study1",
               IF path % 4 = 3 THEN "series2" ELSE "series1",
               <<StudyInfo(Null), SeriesInfo(Null, Null, Some("OT"))>>,
               Inst(Null, Null, Some(100 - path), Null, path, path))

(* which files of a folder fail *)
Fails(pattern, path) ==
    IF pattern = "all" THEN TRUE
    ELSE IF pattern = "alternate" THEN path % 2 = 1
    ELSE IF pattern = "first" THEN path = 1
    ELSE IF pattern = "batchEnd" THEN path = BATCH_SIZE
    ELSE IF pattern = "laterBatch" THEN path > BATCH_SIZE
    ELSE IF pattern = "many" THEN path <= ErrorLimit + 1
    ELSE FALSE

(* a failing file fails by readFile without success, by readFile throwing  *)
(* or by parseDicomFile returning null                                     *)
Folder(n, pattern) ==
    [path \in 1..n |->
        IF ~Fails(pattern, path) THEN ScanFile(path, "ok", Some(ScanRecord(path)))
        ELSE IF path % 3 = 0 THEN ScanFile(path, "failed", Null)
        ELSE IF path % 3 = 1 THEN ScanFile(path, "throws", Null)
        ELSE ScanFile(path, "ok", Null)]

(* the folders the user moves through: an empty one, one whose first file  *)
(* fails, one of five files in two studies                                 *)
NavFolders == {Folder(0, "none"), Folder(2, "first"), Folder(5, "none")}

----------------------------------------------------------------------------
(* Specification of one scan: the user opens one folder and may cancel     *)

InitScan ==
    /\ pc = "app"
    /\ IdleCore /\ IdleFile /\ IdleView /\ IdleMain
    /\ store = InitialStore
    /\ call = NoCall
    /\ \E n \in 0..MaxScanFiles :
          \E pattern \in {"none", "all", "alternate", "first", "batchEnd",
                          "laterBatch", "many"} :
             opening = <<Folder(n, pattern)>>
    /\ cancelledRef = FALSE
    /\ scans = <<>>
    /\ cancelling = [calls |-> 0, waiting |-> 0]

NextScan ==
    \/ ScanFolder
    \/ \E k \in DOMAIN scans : ScanResolved(k)
    \/ \E k \in DOMAIN scans : BatchResolved(k)
    \/ \E k \in DOMAIN scans : TimerFired(k)
    \/ CancelScan
    \/ CancelResolved

SpecScan == InitScan /\ [][NextScan]_vars

----------------------------------------------------------------------------
(* The handlers of the user interface that change the selection.  A        *)
(* handler runs in a task of its own, after React has rendered the         *)
(* components with the state of the store, so the selectedInstanceIndex    *)
(* and the series of its closure are those of the store.                   *)

(* SeriesBrowser.tsx: handleSeriesClick on a series of the list *)
HandleSeriesClick ==
    /\ \E i \in DOMAIN store.studies :
          \E j \in DOMAIN store.studies[i].value.series :
             LET series == store.studies[i].value.series[j].value
             IN  /\ store' = setSelectedSeries(
                                 setSelectedStudy(store, Some(series.studyInstanceUID)),
                                 Some(series.seriesInstanceUID))
                 /\ call' = [op |-> "seriesClick", uid |-> Some(series.seriesInstanceUID)]
    /\ UNCHANGED <<pc, coreVars, fileVars, viewVars, opening, cancelledRef, scans,
                   cancelling, main>>

(* Viewport.tsx: handleWheel, deltaY > 0 or not *)
HandleWheel ==
    /\ \E down \in BOOLEAN :
          LET series == getSelectedSeries(store)
              maxIndex == Len(InstancesOf(Val(series))) - 1
          IN  IF series = Null THEN store' = store
              ELSE IF down
              THEN store' = setSelectedInstanceIndex(store,
                                Min(store.selectedInstanceIndex + 1, maxIndex))
              ELSE store' = setSelectedInstanceIndex(store,
                                Max(store.selectedInstanceIndex - 1, 0))
    /\ call' = [op |-> "wheel", uid |-> Null]
    /\ UNCHANGED <<pc, coreVars, fileVars, viewVars, opening, cancelledRef, scans,
                   cancelling, main>>

(* App.tsx: onNextSlice and onPrevSlice of the arrow and page keys *)
HandleSliceKey ==
    /\ \E next \in BOOLEAN :
          LET series == getSelectedSeries(store)
              instances_ == IF series = Null THEN <<>> ELSE InstancesOf(Val(series))
              maxIndex == Max(0, Len(instances_) - 1)
          IN  IF next
              THEN store' = setSelectedInstanceIndex(store,
                                Min(store.selectedInstanceIndex + 1, maxIndex))
              ELSE store' = setSelectedInstanceIndex(store,
                                Max(store.selectedInstanceIndex - 1, 0))
    /\ call' = [op |-> "sliceKey", uid |-> Null]
    /\ UNCHANGED <<pc, coreVars, fileVars, viewVars, opening, cancelledRef, scans,
                   cancelling, main>>

(* clearStudies() *)
ClearStudies ==
    /\ store' = clearStudies(store)
    /\ call' = [op |-> "clearStudies", uid |-> Null]
    /\ UNCHANGED <<pc, coreVars, fileVars, viewVars, opening, cancelledRef, scans,
                   cancelling, main>>

----------------------------------------------------------------------------
(* Specification of the scans of the application: the user opens folders   *)
(* one after the other without waiting for a scan to end, and cancels.     *)
(* The folders: an empty one, one of three files, one whose first file     *)
(* fails, one of two batches.                                              *)

InitApp ==
    /\ pc = "app"
    /\ IdleCore /\ IdleFile /\ IdleView /\ IdleMain
    /\ store = InitialStore
    /\ call = NoCall
    /\ \E n \in 1..MaxScans :
          opening \in [1..n -> {Folder(0, "none"), Folder(3, "none"), Folder(2, "first"),
                                Folder(BATCH_SIZE + 1, "batchEnd")}]
    /\ cancelledRef = FALSE
    /\ scans = <<>>
    /\ cancelling = [calls |-> 0, waiting |-> 0]

SpecApp == InitApp /\ [][NextScan]_vars

----------------------------------------------------------------------------
(* Specification of the navigation: the user opens folders and moves       *)
(* through the series while the scans run.  cancelScan is left out: a scan *)
(* it stops changes the selection no more than one that has not ended.     *)

InitNav ==
    /\ pc = "app"
    /\ IdleCore /\ IdleFile /\ IdleView /\ IdleMain
    /\ store = InitialStore
    /\ call = NoCall
    /\ \E n \in 1..MaxScans : opening \in [1..n -> NavFolders]
    /\ cancelledRef = FALSE
    /\ scans = <<>>
    /\ cancelling = [calls |-> 0, waiting |-> 0]

NextNav ==
    \/ ScanFolder
    \/ \E k \in DOMAIN scans : ScanResolved(k)
    \/ \E k \in DOMAIN scans : BatchResolved(k)
    \/ \E k \in DOMAIN scans : TimerFired(k)
    \/ HandleSeriesClick
    \/ HandleWheel
    \/ HandleSliceKey
    \/ ClearStudies

SpecNav == InitNav /\ [][NextNav]_vars

----------------------------------------------------------------------------
(* Specification of the store alone: its operations called in any order    *)
(* with any argument, as the tests of the store call them                  *)

(* setStudies with the study map of a folder *)
SetStudies ==
    /\ \E folder \in NavFolders :
          store' = setStudies(store,
                      groupDicomFiles(
                          ParsedOf([j \in DOMAIN folder |-> BatchResult(folder[j])])))
    /\ call' = [op |-> "setStudies", uid |-> Null]
    /\ UNCHANGED <<pc, coreVars, fileVars, viewVars, opening, cancelledRef, scans,
                   cancelling, main>>

SetSelectedStudy ==
    /\ \E uid \in {Null} \cup {Some(studyUID) : studyUID \in StudyUIDs} :
          /\ store' = setSelectedStudy(store, uid)
          /\ call' = [op |-> "setSelectedStudy", uid |-> uid]
    /\ UNCHANGED <<pc, coreVars, fileVars, viewVars, opening, cancelledRef, scans,
                   cancelling, main>>

SetSelectedSeries ==
    /\ \E uid \in {Null} \cup {Some(seriesUID) : seriesUID \in SeriesUIDs} :
          /\ store' = setSelectedSeries(store, uid)
          /\ call' = [op |-> "setSelectedSeries", uid |-> uid]
    /\ UNCHANGED <<pc, coreVars, fileVars, viewVars, opening, cancelledRef, scans,
                   cancelling, main>>

SetSelectedInstanceIndex ==
    /\ \E index \in 0..MaxIndex : store' = setSelectedInstanceIndex(store, index)
    /\ call' = [op |-> "setSelectedInstanceIndex", uid |-> Null]
    /\ UNCHANGED <<pc, coreVars, fileVars, viewVars, opening, cancelledRef, scans,
                   cancelling, main>>

InitStore ==
    /\ pc = "app"
    /\ IdleCore /\ IdleFile /\ IdleView /\ IdleMain
    /\ IdleApp

NextStore ==
    \/ SetStudies
    \/ SetSelectedStudy
    \/ SetSelectedSeries
    \/ SetSelectedInstanceIndex
    \/ ClearStudies

SpecStore == InitStore /\ [][NextStore]_vars

----------------------------------------------------------------------------
(* preload.ts (the main process): the handlers of fs:scanDicomFolder and   *)
(* fs:cancelScan.  A signal { cancelled } is its number in main.signals,   *)
(* currentScanSignal is null or the number of a signal, a handler of       *)
(* fs:scanDicomFolder is at its await of scanDirectory ("scanning") or has *)
(* returned.                                                               *)

(* ipcMain.handle('fs:scanDicomFolder'), up to the await of scanDirectory *)
MainScanDicomFolder ==
    /\ Len(main.handlers) < MaxMainScans
    /\ LET marked == IF main.currentScanSignal # Null
                     THEN [main.signals EXCEPT ![Val(main.currentScanSignal)] = TRUE]
                     ELSE main.signals
           signal == Len(marked) + 1
       IN  main' = [ currentScanSignal |-> Some(signal),
                     signals           |-> Append(marked, FALSE),
                     cancelReturned    |-> main.cancelReturned,
                     handlers          |-> Append(main.handlers,
                                              [pc |-> "scanning", signal |-> signal,
                                               files |-> "none"]) ]
    /\ UNCHANGED <<pc, coreVars, fileVars, viewVars, appVars>>

(* scanDirectory returns, with all the files or, if it has seen its signal *)
(* cancelled, with those found so far; finally { currentScanSignal = null } *)
MainScanReturns(h) ==
    /\ main.handlers[h].pc = "scanning"
    /\ \E files \in IF main.signals[main.handlers[h].signal]
                     THEN {"all", "some"} ELSE {"all"} :
          main' = [main EXCEPT !.currentScanSignal = Null,
                               !.handlers[h].pc = "returned",
                               !.handlers[h].files = files]
    /\ UNCHANGED <<pc, coreVars, fileVars, viewVars, appVars>>

(* ipcMain.handle('fs:cancelScan') *)
MainCancelScan ==
    /\ main' = IF main.currentScanSignal # Null
               THEN [main EXCEPT !.signals[Val(main.currentScanSignal)] = TRUE,
                                 !.cancelReturned = Some(TRUE)]
               ELSE [main EXCEPT !.cancelReturned = Some(FALSE)]
    /\ UNCHANGED <<pc, coreVars, fileVars, viewVars, appVars>>

InitMain ==
    /\ pc = "app"
    /\ IdleCore /\ IdleFile /\ IdleView /\ IdleApp
    /\ IdleMain

NextMain ==
    \/ MainScanDicomFolder
    \/ \E h \in DOMAIN main.handlers : MainScanReturns(h)
    \/ MainCancelScan

SpecMain == InitMain /\ [][NextMain]_vars

----------------------------------------------------------------------------
(* Properties of sortInstances, under SpecSort *)

Count(list, x) == Cardinality({i \in DOMAIN list : list[i] = x})

IsPermutation(l1, l2) ==
    /\ Len(l1) = Len(l2)
    /\ \A i \in DOMAIN l2 : Count(l1, l2[i]) = Count(l2, l2[i])
    /\ \A i \in DOMAIN l1 : Count(l2, l1[i]) = Count(l1, l1[i])

(* x orders before or equal y *)
Le(x, y) == compare(x, y) <= 0

(* some three instances of the list compare inconsistently *)
Inconsistent(list) ==
    \E i, j, k \in DOMAIN list :
        Le(list[i], list[j]) /\ Le(list[j], list[k]) /\ ~Le(list[i], list[k])

HasDuplicate(list) == \E i, j \in DOMAIN list : i # j /\ list[i] = list[j]

DistinctPaths(list) ==
    \A i, j \in DOMAIN list : i # j => list[i].filePath # list[j].filePath

(* every ordering of the list *)
Orderings(list) ==
    {[i \in DOMAIN list |-> list[f[i]]] :
        f \in {g \in [DOMAIN list -> DOMAIN list] :
                  \A i, j \in DOMAIN list : i # j => g[i] # g[j]}}

(* C1: the list sortInstances returns has the length of its input and is   *)
(* a permutation of it: the same instances, each as many times.            *)
C1_SortIsPermutation ==
    pc \in {"sorted", "resorted"} => IsPermutation(sorted, instances)

(* C1: a list of three with a duplicate, which the sort has reordered *)
C1_Witness ==
    /\ pc = "sorted"
    /\ Len(instances) = 3
    /\ HasDuplicate(instances)
    /\ sorted # instances
    /\ \E i, j \in DOMAIN instances :
          instances[i].instanceNumber = Null /\ instances[j].instanceNumber # Null

(* C2: the comparison is transitive on the instances being sorted: a       *)
(* before-or-equal b and b before-or-equal c give a before-or-equal c.     *)
C2_CompareTransitive ==
    pc = "sorted" => ~Inconsistent(instances)

(* C4: a set of instances with pairwise distinct file paths is returned in *)
(* the same sequence from every ordering of it.                            *)
C4_SameOutputForEveryOrdering ==
    (pc = "sorted" /\ DistinctPaths(instances)) =>
        \A l \in Orderings(instances) : sortInstances(l) = sorted

(* C5: sortInstances is idempotent: sorting its result returns the result. *)
C5_SortIdempotent ==
    pc = "resorted" => resorted = sorted

(* C5: the result of a sort that reordered a list the comparator is        *)
(* inconsistent on has been sorted again                                   *)
C5_Witness ==
    /\ pc = "resorted"
    /\ Len(instances) = 3
    /\ sorted # instances
    /\ Inconsistent(instances)

(* the levels of the cascade C6 is about *)
Levels == {"z", "slice", "number", "path"}

Carries(i, K) ==
    CASE K = "z"      -> HasZ(i)
      [] K = "slice"  -> i.sliceLocation # Null
      [] K = "number" -> i.instanceNumber # Null
      [] K = "acq"    -> i.acquisitionNumber # Null
      [] K = "path"   -> TRUE

KeyOf(i, K) ==
    CASE K = "z"      -> ZOf(i)
      [] K = "slice"  -> Val(i.sliceLocation)
      [] K = "number" -> Val(i.instanceNumber)
      [] K = "acq"    -> Val(i.acquisitionNumber)
      [] K = "path"   -> i.filePath

Higher(K) ==
    CASE K = "z"      -> {}
      [] K = "slice"  -> {"z"}
      [] K = "number" -> {"z", "slice"}
      [] K = "acq"    -> {"z", "slice", "number"}
      [] K = "path"   -> {"z", "slice", "number", "acq"}

Gap(K) == IF K \in {"z", "slice"} THEN Tol ELSE 0

(* every instance carries K, the values differ pairwise (by more than the  *)
(* tolerance), and no instance carries a level of higher priority          *)
OrderedByLevel(list, K) ==
    /\ \A i \in DOMAIN list : Carries(list[i], K)
    /\ \A i \in DOMAIN list : \A H \in Higher(K) : ~Carries(list[i], H)
    /\ \A i, j \in DOMAIN list :
          i # j => Abs(KeyOf(list[i], K) - KeyOf(list[j], K)) > Gap(K)

Ascending(list, K) ==
    \A i, j \in DOMAIN list : i < j => KeyOf(list[i], K) < KeyOf(list[j], K)

(* C6: when every instance carries level K with pairwise different values  *)
(* and none carries a level above K, the result ascends in K.              *)
C6_AscendingInLevel ==
    pc = "sorted" =>
        \A K \in Levels : OrderedByLevel(instances, K) => Ascending(sorted, K)

(* C6: three slice locations, not in ascending order in the input, on      *)
(* instances of which one also carries an instance number                  *)
C6_Witness ==
    /\ pc = "sorted"
    /\ Len(instances) = 3
    /\ OrderedByLevel(instances, "slice")
    /\ ~Ascending(instances, "slice")
    /\ \E i \in DOMAIN instances : instances[i].instanceNumber # Null

----------------------------------------------------------------------------
(* Properties of the comparator, under SpecCompare *)

LevelOrder == <<"z", "slice", "number", "acq", "path">>

(* level K decides between x and y: both carry it and the values differ,   *)
(* by more than the tolerance at the first two levels                      *)
Decides(x, y, K) ==
    Carries(x, K) /\ Carries(y, K) /\ Abs(KeyOf(x, K) - KeyOf(y, K)) > Gap(K)

(* the difference at the first level, from level n on, that decides; 0     *)
(* when none does                                                          *)
RECURSIVE FirstDeciding(_, _, _)
FirstDeciding(x, y, n) ==
    IF n > Len(LevelOrder) THEN 0
    ELSE IF Decides(x, y, LevelOrder[n])
         THEN KeyOf(x, LevelOrder[n]) - KeyOf(y, LevelOrder[n])
         ELSE FirstDeciding(x, y, n + 1)

(* C3: the comparison is decided by the first level at which both          *)
(* instances carry a value and the values differ; a level with equal       *)
(* values falls through, down to the file path.                            *)
C3_DecidedByFirstDifferingLevel ==
    pc = "compared" => Sign(Val(order)) = Sign(FirstDeciding(a, b, 1))

NoZ(i) == [i EXCEPT !.imagePositionPatient = Null]

NoSlice(i) == [i EXCEPT !.sliceLocation = Null]

(* the Z level, when both instances have a Z position: a difference within *)
(* `within` falls through to the levels below, any other decides by sign   *)
ZLevelRule(within(_)) ==
    (pc = "compared" /\ HasZ(a) /\ HasZ(b)) =>
        LET d == ZOf(a) - ZOf(b)
        IN  IF within(d)
            THEN Val(order) = compare(NoZ(a), NoZ(b))
            ELSE Sign(Val(order)) = Sign(d)

(* the slice level, when it is the first level both instances carry *)
SliceLevelRule(within(_)) ==
    (pc = "compared" /\ ~(HasZ(a) /\ HasZ(b))
        /\ a.sliceLocation # Null /\ b.sliceLocation # Null) =>
        LET d == Val(a.sliceLocation) - Val(b.sliceLocation)
        IN  IF within(d)
            THEN Val(order) = compare(NoSlice(NoZ(a)), NoSlice(NoZ(b)))
            ELSE Sign(Val(order)) = Sign(d)

BelowTol(d) == Abs(d) < Tol

UpToTol(d) == Abs(d) <= Tol

(* C7, as claimed: a Z or slice difference of magnitude below 0.001 falls  *)
(* through to the next level, one of 0.001 or more decides by its sign.    *)
C7_DecidesFromTolerance ==
    ZLevelRule(BelowTol) /\ SliceLevelRule(BelowTol)

(* C7, amended: a Z or slice difference of magnitude up to and including   *)
(* 0.001 falls through to the next level, one above 0.001 decides by its   *)
(* sign.                                                                   *)
C7_DecidesAboveTolerance ==
    ZLevelRule(UpToTol) /\ SliceLevelRule(UpToTol)

(* C7: two Z positions exactly 0.001 apart, compared, the result going     *)
(* against the sign of their difference                                    *)
C7_Witness ==
    /\ pc = "compared"
    /\ HasZ(a) /\ HasZ(b)
    /\ Abs(ZOf(a) - ZOf(b)) = Tol
    /\ Sign(Val(order)) # Sign(ZOf(a) - ZOf(b))

----------------------------------------------------------------------------
(* Properties of groupDicomFiles, under SpecGroup *)

(* the indices of the input records of a study, and of a series of it *)
RecordsOfStudy(st) ==
    {i \in DOMAIN parsedFiles : parsedFiles[i].studyInstanceUID = st}

RecordsOfSeries(st, se) ==
    {i \in RecordsOfStudy(st) : parsedFiles[i].seriesInstanceUID = se}

Least(S) == CHOOSE i \in S : \A j \in S : i <= j

(* the series of the map, each with the UID of its study *)
AllSeries ==
    UNION {{<<studies[i].key, studies[i].value.series[j].value>> :
                j \in DOMAIN studies[i].value.series} : i \in DOMAIN studies}

(* C8: one study per distinct study UID of the input, in each study one    *)
(* series per distinct series UID of its records, and in each series as    *)
(* many instances as there are records of that study and series.           *)
C8_GroupCounts ==
    pc = "grouped" =>
        /\ MapKeys(studies) = {parsedFiles[i].studyInstanceUID : i \in DOMAIN parsedFiles}
        /\ Len(studies) = Cardinality(MapKeys(studies))
        /\ \A i \in DOMAIN studies :
              LET st == studies[i].key
                  sm == studies[i].value.series
              IN  /\ MapKeys(sm) =
                        {parsedFiles[k].seriesInstanceUID : k \in RecordsOfStudy(st)}
                  /\ Len(sm) = Cardinality(MapKeys(sm))
                  /\ \A j \in DOMAIN sm :
                        Len(sm[j].value.instances) =
                            Cardinality(RecordsOfSeries(st, sm[j].key))

(* C8: three records of two studies, two of them in the same series *)
C8_Witness ==
    /\ pc = "grouped"
    /\ Len(parsedFiles) = 3
    /\ Len(studies) = 2
    /\ \E x \in AllSeries : Len(x[2].instances) = 2

(* C9: the descriptive fields of a study are those of the first record     *)
(* with its UID, those of a series are those of the first record with its  *)
(* study UID and series UID; no later record changes them.                 *)
C9_FieldsOfFirstRecord ==
    pc = "grouped" =>
        \A i \in DOMAIN studies :
            LET st    == studies[i].key
                first == parsedFiles[Least(RecordsOfStudy(st))]
            IN  /\ \A f \in StudyFields : studies[i].value[f] = first.studyInfo[f]
                /\ \A j \in DOMAIN studies[i].value.series :
                      LET se == studies[i].value.series[j]
                          fs == parsedFiles[Least(RecordsOfSeries(st, se.key))]
                      IN  \A f \in SeriesFields : se.value[f] = fs.seriesInfo[f]

(* C9: a study and series whose first record carries no description and    *)
(* whose later record does                                                 *)
C9_Witness ==
    /\ pc = "grouped"
    /\ \E i, j \in DOMAIN parsedFiles :
          /\ i < j
          /\ parsedFiles[i].studyInstanceUID = parsedFiles[j].studyInstanceUID
          /\ parsedFiles[i].seriesInstanceUID = parsedFiles[j].seriesInstanceUID
          /\ i = Least(RecordsOfStudy(parsedFiles[i].studyInstanceUID))
          /\ parsedFiles[i].studyInfo.studyDate = Null
          /\ parsedFiles[j].studyInfo.studyDate # Null
          /\ parsedFiles[i].seriesInfo.seriesNumber = Null
          /\ parsedFiles[j].seriesInfo.seriesNumber # Null

(* C10: in every series sortedInstances is a permutation of instances and  *)
(* is sortInstances of instances.                                          *)
C10_SortedIsSortOfInstances ==
    pc = "grouped" =>
        \A x \in AllSeries :
            /\ IsPermutation(x[2].sortedInstances, x[2].instances)
            /\ x[2].sortedInstances = sortInstances(x[2].instances)

(* C10: a study with two series, the second of which the sort reordered *)
C10_Witness ==
    /\ pc = "grouped"
    /\ \E i \in DOMAIN studies :
          /\ Len(studies[i].value.series) = 2
          /\ studies[i].value.series[2].value.sortedInstances
                # studies[i].value.series[2].value.instances

(* the study UIDs of the map, the series UIDs of a study, the instance     *)
(* UIDs of a series, each in the order the map holds them                  *)
KeysOf(map) == [i \in DOMAIN map |-> map[i].key]

InstanceUIDs(list) == [i \in DOMAIN list |-> list[i].sopInstanceUID]

RecordsOfInstance(st, se, uid) ==
    {i \in RecordsOfSeries(st, se) : parsedFiles[i].instance.sopInstanceUID = uid}

(* C12: no record is dropped as a duplicate: a series holds, in instances  *)
(* and in sortedInstances, one entry per record of each instance UID, so   *)
(* two records with the same study, series and instance UID give two       *)
(* entries in each.                                                        *)
C12_DuplicatesKept ==
    pc = "grouped" =>
        \A x \in AllSeries :
            \A uid \in {r.instance.sopInstanceUID : r \in ParsedFiles} :
                LET n == Cardinality(RecordsOfInstance(x[1], x[2].seriesInstanceUID, uid))
                IN  /\ Count(InstanceUIDs(x[2].instances), uid) = n
                    /\ Count(InstanceUIDs(x[2].sortedInstances), uid) = n

(* C12: two records of two files with the same study, series and instance  *)
(* UID, and a series with two entries of that UID in each list             *)
C12_Witness ==
    /\ pc = "grouped"
    /\ \E i, j \in DOMAIN parsedFiles :
          /\ i < j
          /\ parsedFiles[i].studyInstanceUID = parsedFiles[j].studyInstanceUID
          /\ parsedFiles[i].seriesInstanceUID = parsedFiles[j].seriesInstanceUID
          /\ parsedFiles[i].instance.sopInstanceUID = parsedFiles[j].instance.sopInstanceUID
          /\ parsedFiles[i].instance.filePath # parsedFiles[j].instance.filePath
          /\ \E x \in AllSeries :
                /\ x[1] = parsedFiles[i].studyInstanceUID
                /\ x[2].seriesInstanceUID = parsedFiles[i].seriesInstanceUID
                /\ Count(InstanceUIDs(x[2].instances),
                         parsedFiles[i].instance.sopInstanceUID) = 2
                /\ Count(InstanceUIDs(x[2].sortedInstances),
                         parsedFiles[i].instance.sopInstanceUID) = 2

(* the instances of the records of a series, in the order of the input *)
InputInstances(st, se) ==
    LET OfSeries(r) == r.studyInstanceUID = st /\ r.seriesInstanceUID = se
        records == SelectSeq(parsedFiles, OfSeries)
    IN  [k \in DOMAIN records |-> records[k].instance]

(* C13: instances of every series holds the instances of its records in    *)
(* the order of the input: sorting leaves it as it was built.              *)
C13_InstancesInInputOrder ==
    pc = "grouped" =>
        \A x \in AllSeries :
            x[2].instances = InputInstances(x[1], x[2].seriesInstanceUID)

(* C13: a series whose sorted list is in another order than its instances *)
C13_Witness ==
    /\ pc = "grouped"
    /\ \E x \in AllSeries :
          /\ Len(x[2].instances) >= 2
          /\ x[2].sortedInstances # x[2].instances
          /\ x[2].instances = InputInstances(x[1], x[2].seriesInstanceUID)

(* C14: sortInstances of the empty list is the empty list, and             *)
(* groupDicomFiles of the empty list is the empty map.                     *)
C14_EmptyInputs ==
    /\ "sortInstances" \in called /\ instances = <<>> => sorted = <<>>
    /\ "groupDicomFiles" \in called /\ parsedFiles = <<>> => studies = <<>>

(* C14: both functions called on the empty list *)
C14_Witness ==
    /\ called = {"sortInstances", "groupDicomFiles"}
    /\ instances = <<>> /\ sorted = <<>>
    /\ parsedFiles = <<>> /\ studies = <<>>

----------------------------------------------------------------------------
(* Claims about the pixel transform of the viewport *)

(* renderImage drew a pixel from numbers: no operand of the transform is   *)
(* NaN                                                                     *)
DrewNumbers ==
    /\ pc = "rendered"
    /\ render.status = "drawn"
    /\ IsNum(render.rescaleSlope) /\ IsNum(render.rescaleIntercept)
    /\ IsNum(render.wc) /\ IsNum(render.ww)

(* C15: for a positive width the displayed value is an integer of 0..255,  *)
(* the value the canvas holds; the modality value is raw * slope +         *)
(* intercept; the display is 0 at or below center - width / 2 and 255 at   *)
(* or above center + width / 2.                                            *)
C15_DisplayInRange ==
    DrewNumbers /\ render.ww.v > 0 =>
        LET mv == render.pixelValue * render.rescaleSlope.v + render.rescaleIntercept.v
        IN  /\ render.modalityValue = Num(mv)
            /\ IsNum(render.displayValue)
            /\ render.displayValue.v \in 0..255
            /\ render.imageData = render.displayValue.v
            /\ 2 * mv <= 2 * render.wc.v - render.ww.v => render.displayValue.v = 0
            /\ 2 * mv >= 2 * render.wc.v + render.ww.v => render.displayValue.v = 255

(* C15: a modality value far above the window is displayed as 255 *)
C15_Witness ==
    /\ DrewNumbers
    /\ render.ww.v > 0
    /\ render.modalityValue.v > render.wc.v + render.ww.v + 255
    /\ render.displayValue = Num(255)

(* C16: inside the window the displayed value d is the integer nearest to  *)
(* x = ((modality value - low) / width) * 255, a half rounded up:          *)
(* d - 1/2 <= x < d + 1/2; with center 40 and width 400, 40 displays as    *)
(* 128 and raw 600 with slope 2 and intercept -1000 as 230.                *)
C16_RoundsHalfUp ==
    DrewNumbers /\ render.ww.v > 0 /\ render.branch = "scale" =>
        LET twice == 2 * render.modalityValue.v - 2 * render.wc.v + render.ww.v
            d     == render.displayValue.v
        IN  /\ IsNum(render.displayValue)
            /\ (2 * d - 1) * render.ww.v <= 255 * twice
            /\ 255 * twice < (2 * d + 1) * render.ww.v
            /\ render.wc.v = 40 /\ render.ww.v = 400 /\ render.modalityValue.v = 40
                  => d = 128
            /\ render.wc.v = 40 /\ render.ww.v = 400 /\ render.pixelValue = 600
                  /\ render.rescaleSlope.v = 2 /\ render.rescaleIntercept.v = -1000
                  => render.modalityValue.v = 200 /\ d = 230

(* C16: raw 600 with slope 2 and intercept -1000 in the window 40 / 400 *)
C16_Witness ==
    /\ DrewNumbers
    /\ render.wc = Num(40) /\ render.ww = Num(400)
    /\ render.pixelValue = 600
    /\ render.rescaleSlope = Num(2) /\ render.rescaleIntercept = Num(-1000)
    /\ render.branch = "scale"
    /\ render.displayValue = Num(230)

(* C17: the width the transform uses is a number and strictly positive.    *)
C17_WidthUsedPositive ==
    pc = "rendered" /\ render.status = "drawn" =>
        IsNum(render.ww) /\ render.ww.v > 0

C19_SlopeNeverZero ==
    pc = "rendered" /\ render.status = "drawn" =>
        IsNum(render.rescaleSlope) /\ render.rescaleSlope.v # 0

----------------------------------------------------------------------------
(* Claims about parseDicomFile *)

(* C20: for a dataset the parser made, parseDicomFile returns a record if  *)
(* and only if each of the three required UIDs is present, readable and    *)
(* not empty once trimmed, whatever the optional elements are; the record  *)
(* carries the trimmed UIDs.                                               *)
C20_RequiredFieldGate ==
    pc = "parsed" /\ dataSet.ok =>
        /\ parsed # Null <=>
              \A tag \in RequiredTags :
                  /\ dataSet.elements[tag].kind = "text"
                  /\ trim(dataSet.elements[tag].text) # <<>>
        /\ parsed # Null =>
              /\ Val(parsed).studyInstanceUID = trim(dataSet.elements["x0020000d"].text)
              /\ Val(parsed).seriesInstanceUID = trim(dataSet.elements["x0020000e"].text)
              /\ Val(parsed).sopInstanceUID = trim(dataSet.elements["x00080018"].text)

(* C20: a record decoded from a file none of whose optional elements can   *)
(* be read                                                                 *)
C20_Witness ==
    /\ pc = "parsed"
    /\ dataSet.ok
    /\ parsed # Null
    /\ \A tag \in OptionalTags : dataSet.elements[tag].kind = "unreadable"

(* a nullable number that is null or a proper number *)
NullOrNumber(x) == x = Null \/ IsNum(Val(x))

(* a nullable window value that is null or made of proper numbers only *)
NullOrNumbers(x) ==
    x = Null \/ \A i \in DOMAIN Val(x).values : IsNum(Val(x).values[i])

(* C21: in a returned record every numeric field of the instance is null   *)
(* or a proper number, and imagePositionPatient, windowCenter and          *)
(* windowWidth are null or made of proper numbers only.                    *)
C21_NumericFieldsProper ==
    pc = "parsed" /\ parsed # Null =>
        LET instance == Val(parsed).instance
        IN  /\ NullOrNumber(instance.instanceNumber)
            /\ NullOrNumber(instance.rows)
            /\ IsNum(instance.rescaleSlope)
            /\ IsNum(instance.rescaleIntercept)
            /\ \/ instance.imagePositionPatient = Null
               \/ \A i \in DOMAIN Val(instance.imagePositionPatient) :
                      IsNum(Val(instance.imagePositionPatient)[i])
            /\ NullOrNumbers(instance.windowCenter)
            /\ NullOrNumbers(instance.windowWidth)

(* the strings of a list joined by backslashes *)
RECURSIVE Join(_)
Join(strings) ==
    IF Len(strings) = 1 THEN strings[1]
    ELSE strings[1] \o <<Backslash>> \o Join(Tail(strings))

HasBackslash(str) == \E i \in DOMAIN str : str[i] = Backslash

(* the elements a dataset holds besides the pixel data *)
ElementsOf(ds) == {tag \in ParseTags : ds.elements[tag].kind # "absent"}

Drawable ==
    /\ dataSet.ok
    /\ \A tag \in ViewTags : dataSet.elements[tag].kind # "unreadable"
    /\ dataSet.pixelValue # Null

(* C27: after a drag with the windowLevel tool the next render of the      *)
(* current image uses the adjusted window (center = previous center +      *)
(* deltaY, width = max(1, previous width + 2 * deltaX)), also when the     *)
(* file carries window center and window width elements.                   *)
C27_DragReachesRender ==
    [][ (/\ pc' = "dragged"
         /\ Drawable
         /\ \E move \in MouseMoves :
               /\ move[1] = "windowLevel"
               /\ viewerState' = Dragged(viewerState, move[1], move[2], move[3]))
        => LET window == WindowUsed(dataSet.elements, viewerState')
           IN  /\ window.windowCenter = viewerState'.windowCenter
               /\ window.windowWidth = viewerState'.windowWidth ]_vars

----------------------------------------------------------------------------
(* Properties of scanFolder, under SpecScan *)

(* a file that cannot be read or decoded *)
FileFails(file) == file.read # "ok" \/ file.parsed = Null

FileParses(file) == ~FileFails(file)

RecordsOfFolder(folder) ==
    LET good == SelectSeq(folder, FileParses)
    IN  [j \in DOMAIN good |-> Val(good[j].parsed)]

FailuresOfFolder(folder) ==
    LET bad == SelectSeq(folder, FileFails)
    IN  [j \in DOMAIN bad |-> bad[j].filePath]

(* C23: a scan that ran to completion without cancellation over N files of *)
(* which M fail has passed the N - M records of the other files, in the    *)
(* order of the files, to groupDicomFiles and has collected the M paths of *)
(* the failing files as errors; it has not raised the scan-level error,    *)
(* and an invocation that ended in the catch block had read no file.       *)
C23_FailuresAreCollected ==
    \A k \in DOMAIN scans :
        /\ scans[k].pc = "published" =>
              /\ scans[k].parsedFiles = RecordsOfFolder(scans[k].folder)
              /\ scans[k].errors = FailuresOfFolder(scans[k].folder)
              /\ Len(scans[k].parsedFiles) + Len(scans[k].errors) = Len(scans[k].folder)
              /\ call.op = "published" =>
                    /\ store.studies = groupDicomFiles(RecordsOfFolder(scans[k].folder))
                    /\ store.lastError = Null
        /\ scans[k].pc = "failed" => scans[k].files = <<>> /\ scans[k].errors = <<>>

(* C23: a scan of two batches with more than ten failing files in the      *)
(* first batch, files after them in the same batch and in the second       *)
C23_Witness ==
    /\ scans # <<>>
    /\ scans[1].pc = "published"
    /\ call.op = "published"
    /\ Len(scans[1].folder) > BATCH_SIZE
    /\ Len(scans[1].errors) > ErrorLimit
    /\ \E i, j \in DOMAIN scans[1].parsedFiles :
          /\ scans[1].parsedFiles[i].instance.filePath <= BATCH_SIZE
          /\ scans[1].parsedFiles[j].instance.filePath > BATCH_SIZE

----------------------------------------------------------------------------
(* Properties of the scans that run together, under SpecApp *)

(* C24: once cancelScan has been called while an invocation of scanFolder  *)
(* is running, that invocation starts no further batch and does not        *)
(* publish its result.                                                     *)
C24_CancelledScanStops ==
    [][ \A k \in DOMAIN scans :
          scans[k].cancelRequested =>
             /\ ~(scans[k].pc # "reading" /\ scans'[k].pc = "reading")
             /\ ~(scans[k].pc # "published" /\ scans'[k].pc = "published") ]_vars

(* C30: in every state of the scanner filesParsed <= filesFound and the    *)
(* stored errors are at most ten, also when a second invocation of         *)
(* scanFolder has reset the progress while an earlier one is parsing.      *)
C30_ProgressConsistent ==
    /\ store.scanProgress.filesParsed <= store.scanProgress.filesFound
    /\ Len(store.scanProgress.errors) <= ErrorLimit

----------------------------------------------------------------------------
(* Properties of the selection, under SpecNav *)

(* C25: when an invocation of scanFolder has completed with at least one   *)
(* study, the selected study is the first study of the stored map, the     *)
(* selected series the first series of that study and the index is 0; both *)
(* UIDs are keys of the stored map.                                        *)
C25_FirstStudySelected ==
    (call.op = "published" /\ store.studies # <<>>) =>
        /\ store.selectedStudyUID = Some(store.studies[1].key)
        /\ store.selectedSeriesUID = Some(store.studies[1].value.series[1].key)
        /\ store.selectedInstanceIndex = 0
        /\ MapHas(store.studies, Val(store.selectedStudyUID))
        /\ MapHas(MapGet(store.studies, Val(store.selectedStudyUID)).series,
                  Val(store.selectedSeriesUID))

(* C25: the second of two scans has completed with two studies, the first  *)
(* of them with two series                                                 *)
C25_Witness ==
    /\ call.op = "published"
    /\ Len(scans) = 2
    /\ scans[1].pc = "published" /\ scans[2].pc = "published"
    /\ Len(store.studies) = 2
    /\ Len(store.studies[1].value.series) = 2
    /\ store.selectedStudyUID = Some("study1")

(* C29: after a scan has completed, after a click on a series, a step of   *)
(* the wheel, a step of the keys and after clearStudies, if the selected   *)
(* series is in the stored map then selectedInstanceIndex is an index of   *)
(* its instances and getSelectedInstance returns an instance.              *)
C29_IndexValid ==
    (/\ call.op \in {"published", "seriesClick", "wheel", "sliceKey", "clearStudies"}
     /\ getSelectedSeries(store) # Null) =>
        /\ 0 <= store.selectedInstanceIndex
        /\ store.selectedInstanceIndex < Len(Val(getSelectedSeries(store)).sortedInstances)
        /\ getSelectedInstance(store) # Null

(* C29: the user is at the last instance of a series of three *)
C29_Witness ==
    /\ call.op \in {"wheel", "sliceKey"}
    /\ getSelectedSeries(store) # Null
    /\ Len(Val(getSelectedSeries(store)).sortedInstances) = 3
    /\ store.selectedInstanceIndex = 2

----------------------------------------------------------------------------
(* Properties of the store, under SpecStore *)

(* C26: setSelectedSeries(uid) sets selectedSeriesUID to uid and the index *)
(* to 0 and leaves the studies and selectedStudyUID as they were;          *)
(* clearStudies empties the study map, sets selectedStudyUID and           *)
(* selectedSeriesUID to null and the index to 0.                           *)
C26_SelectionFrame ==
    [][ /\ call'.op = "setSelectedSeries" =>
              /\ store'.selectedSeriesUID = call'.uid
              /\ store'.selectedInstanceIndex = 0
              /\ store'.studies = store.studies
              /\ store'.selectedStudyUID = store.selectedStudyUID
        /\ call'.op = "clearStudies" =>
              /\ store'.studies = <<>>
              /\ store'.selectedStudyUID = Null
              /\ store'.selectedSeriesUID = Null
              /\ store'.selectedInstanceIndex = 0 ]_vars

(* C26: setSelectedSeries has been called on a store with studies and a    *)
(* selected study                                                          *)
C26_Witness ==
    /\ call.op = "setSelectedSeries"
    /\ call.uid = Some("series2")
    /\ store.selectedSeriesUID = Some("series2")
    /\ store.selectedInstanceIndex = 0
    /\ Len(store.studies) = 2
    /\ store.selectedStudyUID = Some("study2")

----------------------------------------------------------------------------
(* Properties of the main process, under SpecMain *)

(* C28: while the folder scan started last is still running,               *)
(* currentScanSignal is the signal of that scan, so that fs:cancelScan     *)
(* marks it cancelled and returns true.                                    *)
C28_SignalOfRunningScan ==
    (/\ main.handlers # <<>>
     /\ main.handlers[Len(main.handlers)].pc = "scanning") =>
        main.currentScanSignal = Some(main.handlers[Len(main.handlers)].signal)
============================================================================
